---- MODULE Spec2Model ----
(***************************************************************************)
(* A model of the AVDL parser (crates/avdl-parser/src/parser.rs) and of    *)
(* the schema model (src/schema.rs).  Source text is a TLA+ string; every  *)
(* parser is an operator from the remaining text to a parse result         *)
(*   [st |-> "Ok" | "Error" | "Failure" | "Panic", val |-> ..., rest |-> ..]*)
(* "Error" is nom's recoverable Err::Error, "Failure" is Err::Failure (the *)
(* result of cut), "Panic" is a Rust panic (expect, unwrap, todo!,         *)
(* unimplemented!) unwinding through the parser.                           *)
(* Option<T> is a sequence of length 0 (None) or 1 (Some).                 *)
(***************************************************************************)
EXTENDS Integers, Sequences, FiniteSets, TLC

VARIABLES input, op, result, doc
vars == <<input, op, result, doc>>

(***************************************************************************)
(* Characters and character classes                                        *)
(***************************************************************************)
Chars(str) == {SubSeq(str, i, i) : i \in 1..Len(str)}

DigitChars == "0123456789"
Digit == Chars(DigitChars)
Lower == Chars("abcdefghijklmnopqrstuvwxyz")
Upper == Chars("ABCDEFGHIJKLMNOPQRSTUVWXYZ")
Alpha == Lower \cup Upper
AlphaNum == Alpha \cup Digit
MultiSpace == {" ", "\t", "\r", "\n"}
Space == {" ", "\t"}
HexChars == "0123456789abcdef"
\* printable ASCII in code order: codes 32 (space) to 95, and 97 to 126
AsciiLow == " !\"#$%&'()*+,-./0123456789:;<=>?@ABCDEFGHIJKLMNOPQRSTUVWXYZ[\\]^_"
AsciiHigh == "abcdefghijklmnopqrstuvwxyz{|}~"

IndexOf(c, str) == CHOOSE i \in 1..Len(str) : SubSeq(str, i, i) = c

(***************************************************************************)
(* Strings                                                                 *)
(***************************************************************************)
StartsWith(s, t) == Len(s) >= Len(t) /\ SubSeq(s, 1, Len(t)) = t
Take(s, n) == IF n >= Len(s) THEN s ELSE SubSeq(s, 1, n)
Drop(s, n) == IF n >= Len(s) THEN "" ELSE SubSeq(s, n + 1, Len(s))
First(s) == IF s = "" THEN "" ELSE SubSeq(s, 1, 1)

\* length of the longest prefix of s whose characters are all in C
RECURSIVE SpanLen(_, _)
SpanLen(C, s) ==
    IF s = "" \/ First(s) \notin C THEN 0 ELSE 1 + SpanLen(C, Tail(s))

\* number of characters before the first occurrence of t in s, -1 if none
RECURSIVE FindSub(_, _)
FindSub(s, t) ==
    IF StartsWith(s, t) THEN 0
    ELSE IF s = "" THEN -1
    ELSE LET n == FindSub(Tail(s), t) IN IF n < 0 THEN -1 ELSE n + 1

(***************************************************************************)
(* Parse results and the nom combinators the parser is built from          *)
(***************************************************************************)
Ok(v, rest) == [st |-> "Ok", val |-> v, rest |-> rest]
Error == [st |-> "Error", val |-> <<>>, rest |-> ""]
Failure == [st |-> "Failure", val |-> <<>>, rest |-> ""]
Panic == [st |-> "Panic", val |-> <<>>, rest |-> ""]
IsOk(r) == r.st = "Ok"
None == <<>>
Some(v) == <<v>>

tag(t, s) == IF StartsWith(s, t) THEN Ok(t, Drop(s, Len(t))) ELSE Error

take_while(C, s) == LET n == SpanLen(C, s) IN Ok(Take(s, n), Drop(s, n))

take_while1(C, s) ==
    LET n == SpanLen(C, s) IN IF n = 0 THEN Error ELSE Ok(Take(s, n), Drop(s, n))

take_until(t, s) ==
    LET n == FindSub(s, t) IN IF n < 0 THEN Error ELSE Ok(Take(s, n), Drop(s, n))

digit1(s) == take_while1(Digit, s)

alphanumeric1(s) == take_while1(AlphaNum, s)

\* multispace0 and space0 never fail: the text left after the skipped blanks
multispace0(s) == Drop(s, SpanLen(MultiSpace, s))

space0(s) == Drop(s, SpanLen(Space, s))

\* opt(p) at s, r being p's result at s
opt(r, s) ==
    IF r.st = "Ok" THEN Ok(Some(r.val), r.rest)
    ELSE IF r.st = "Error" THEN Ok(None, s)
    ELSE r

\* cut(p), r being p's result
cut(r) == IF r.st = "Error" THEN Failure ELSE r

\* map(p, f) with a constant f: keeps the rest, replaces the value
value(v, r) == IF r.st = "Ok" THEN Ok(v, r.rest) ELSE r

\* space_delimited(p), r being p's result after the leading white space
space_delimited(r) == IF r.st = "Ok" THEN Ok(r.val, multispace0(r.rest)) ELSE r

\* a block comment or a line comment ended by a newline
parse_comment(s) ==
    LET done(b, l) ==
            IF StartsWith(s, "/*") /\ b.st = "Ok" THEN Ok(b.val, Drop(b.rest, 2))
            ELSE IF StartsWith(s, "//") /\ l >= 0
                 THEN Ok(Take(Drop(s, 2), l), Drop(s, 2 + l + 1))
            ELSE Error
        with_l(b) == done(b, FindSub(Drop(s, 2), "\n"))
    IN with_l(take_until("*/", Drop(s, 2)))

\* a faulty variant of skip_comment: white space only, a comment stays
skip_space(s) == multispace0(s)

\* space_delimited(opt(parse_comment)): never fails, the text left
skip_comment(s) ==
    LET done(t, c) == IF c.st = "Ok" THEN multispace0(c.rest) ELSE t
        with_c(t) == done(t, parse_comment(t))
    IN with_c(multispace0(s))

\* comment_delimited(p), r being p's result after the leading comment
comment_delimited(r) == IF r.st = "Ok" THEN Ok(r.val, skip_comment(r.rest)) ELSE r

(***************************************************************************)
(* Names                                                                   *)
(***************************************************************************)
\* a faulty variant of NameStartOk: any first character will do
NameStartAny(s) == s # ""

\* the verify closure of parse_var_name
NameStartOk(s) == s # "" /\ First(s) \in Alpha \cup {"_"}

parse_var_name(s) ==
    LET r == take_while(AlphaNum \cup {"_"}, s)
    IN IF NameStartOk(r.val) THEN r ELSE Error

\* Name::new: the text after the last dot is the name, the text before it the
\* namespace; None when either is malformed
LastDot(s) == IF \E i \in 1..Len(s) : SubSeq(s, i, i) = "."
              THEN CHOOSE i \in 1..Len(s) :
                     /\ SubSeq(s, i, i) = "."
                     /\ \A j \in (i + 1)..Len(s) : SubSeq(s, j, j) # "."
              ELSE 0

IsIdent(s) ==
    /\ s # ""
    /\ First(s) \in Alpha \cup {"_"}
    /\ SpanLen(AlphaNum \cup {"_"}, s) = Len(s)

NameNew(s) ==
    LET done(d, n, ns) ==
            IF ~IsIdent(n) THEN None
            ELSE IF d = 0 THEN Some([name |-> n, namespace |-> None])
            ELSE IF /\ ns # ""
                    /\ First(ns) \in Alpha \cup {"_"}
                    /\ SpanLen(AlphaNum \cup {"_", "."}, ns) = Len(ns)
                 THEN Some([name |-> n, namespace |-> Some(ns)])
            ELSE None
        with_ns(d, n) == done(d, n, Take(s, d - 1))
        with_n(d) == with_ns(d, Drop(s, d))
    IN with_n(LastDot(s))

(***************************************************************************)
(* Quoted strings (crate::string_parser::parse_string): the unescaped      *)
(* content between two unescaped double quotes                             *)
(***************************************************************************)
RECURSIVE build_string(_, _)
build_string(acc, s) ==
    IF s = "" THEN Error
    ELSE IF First(s) = "\"" THEN Ok(acc, s)
    ELSE IF First(s) = "\\"
         THEN LET e == First(Drop(s, 1))
              IN IF e \in {"\"", "\\", "/"} THEN build_string(acc \o e, Drop(s, 2))
                 ELSE IF e = "n" THEN build_string(acc \o "\n", Drop(s, 2))
                 ELSE IF e = "t" THEN build_string(acc \o "\t", Drop(s, 2))
                 ELSE IF e = "r" THEN build_string(acc \o "\r", Drop(s, 2))
                 ELSE Error
    ELSE build_string(acc \o First(s), Drop(s, 1))

parse_string_uni(s) ==
    LET done(b) ==
            IF First(s) = "\"" /\ b.st = "Ok" THEN Ok(b.val, Drop(b.rest, 1)) ELSE Error
    IN done(build_string("", Drop(s, 1)))

(***************************************************************************)
(* Annotations                                                             *)
(***************************************************************************)
parse_namespace_value(s) ==
    LET done(ns) ==
            IF First(s) = "\"" /\ First(ns.rest) = "\""
            THEN Ok(ns.val, Drop(ns.rest, 1))
            ELSE Error
    IN done(take_while(AlphaNum \cup {".", "_"}, Drop(s, 1)))

\* one element of an @aliases list: parse_namespace_value, and with `strict`
\* map_res(parse_namespace_value, Alias::new)
alias_item(strict, s) ==
    LET done(r) ==
            IF r.st # "Ok" \/ ~strict THEN r
            ELSE IF NameNew(r.val) = None THEN Error
            ELSE Ok(NameNew(r.val)[1], r.rest)
    IN done(parse_namespace_value(s))

\* separated_list1(space_delimited(tag(",")), item), after the items in acc
RECURSIVE alias_items(_, _, _)
alias_items(strict, acc, s) ==
    LET done(sep, it) ==
            IF sep.st # "Ok" \/ it.st # "Ok" THEN Ok(acc, s)
            ELSE alias_items(strict, Append(acc, it.val), it.rest)
        with_it(sep) == done(sep, alias_item(strict, sep.rest))
    IN with_it(space_delimited(tag(",", multispace0(s))))

alias_list(strict, s) ==
    LET done(open, head, items, close) ==
            IF ~StartsWith(s, "@aliases") \/ open.st # "Ok" \/ head.st # "Ok"
               \/ close.st # "Ok"
            THEN Error
            ELSE Ok(items.val, close.rest)
        with_close(open, head, items) == done(open, head, items, tag("])", items.rest))
        with_items(open, head) ==
            with_close(open, head, alias_items(strict, <<head.val>>, head.rest))
        with_head(open) == with_items(open, alias_item(strict, open.rest))
    IN with_head(tag("([", Drop(s, Len("@aliases"))))

parse_aliases(s) == alias_list(FALSE, s)

map_parse_aliases(s) == alias_list(TRUE, s)

parse_namespace(s) ==
    LET done(open, v, close) ==
            IF ~StartsWith(s, "@namespace") \/ open.st # "Ok" \/ v.st # "Ok"
               \/ close.st # "Ok"
            THEN Error
            ELSE Ok(v.val, close.rest)
        with_close(open, v) == done(open, v, tag(")", multispace0(v.rest)))
        with_v(open) == with_close(open, parse_namespace_value(open.rest))
    IN with_v(space_delimited(tag("(", multispace0(Drop(s, Len("@namespace"))))))

parse_order(s) ==
    LET done(open, o, close) ==
            IF ~StartsWith(s, "@order") \/ open.st # "Ok" \/ o.st # "Ok"
               \/ close.st # "Ok"
            THEN Error
            ELSE Ok(o.val, close.rest)
        with_close(open, o) == done(open, o, tag(")", multispace0(o.rest)))
        with_o(open, t) ==
            with_close(open,
                       IF StartsWith(t, "\"ascending\"") THEN Ok("Ascending", Drop(t, 11))
                       ELSE IF StartsWith(t, "\"descending\"") THEN Ok("Descending", Drop(t, 12))
                       ELSE IF StartsWith(t, "\"ignore\"") THEN Ok("Ignore", Drop(t, 8))
                       ELSE Error)
        with_t(open) == with_o(open, open.rest)
    IN with_t(space_delimited(tag("(", multispace0(Drop(s, Len("@order"))))))

\* a faulty variant of permutation_opt: the first parser, then the second
permutation_seq(a1, b2, b1, a2, s) ==
    LET a == opt(a1, s)
    IN IF a1.st = "Ok"
       THEN Ok([fst |-> a.val, snd |-> opt(b2, a1.rest).val], opt(b2, a1.rest).rest)
       ELSE Ok([fst |-> None, snd |-> opt(b1, s).val], opt(b1, s).rest)

\* nom_permutation::permutation_opt of two parsers a and b, each optional and
\* tried on what the other left: a1 and b1 are their results at s, b2 is b's
\* after a1, a2 is a's after b1
permutation_opt(a1, b2, b1, a2, s) ==
    IF a1.st = "Ok"
    THEN IF b2.st = "Ok" THEN Ok([fst |-> Some(a1.val), snd |-> Some(b2.val)], b2.rest)
         ELSE Ok([fst |-> Some(a1.val), snd |-> None], a1.rest)
    ELSE IF b1.st = "Ok"
    THEN IF a2.st = "Ok" THEN Ok([fst |-> Some(a2.val), snd |-> Some(b1.val)], a2.rest)
         ELSE Ok([fst |-> None, snd |-> Some(b1.val)], b1.rest)
    ELSE Ok([fst |-> None, snd |-> None], s)

(***************************************************************************)
(* Numeric literals.  Integers are kept as decimal digit strings (an i64   *)
(* does not fit TLC's integers); a float is its exact decimal      *)
(* value mant * 10^exp, or infinite.                                       *)
(***************************************************************************)
\* the largest exponent literal, in digits, the model evaluates exactly
ExpDigits == 4

I32Max == "2147483647"
I64Max == "9223372036854775807"
UsizeMax == "18446744073709551615"
\* the least decimal that rounds to infinity: 2^128 - 2^103 and 2^1024 - 2^970
F32Limit == "340282356779733661637539395458142568448"
F64Limit == "179769313486231580793728971405303415079934132710037826936173778980444968292764750946649017977587207096330286416692887910946555547851940402630657488671505820681908902000708383676273854845817711531764475730270069855571366959622842914819860834936475292719074168444365510704342711559699508093042880177904174497792"

DigitVal(c) == IndexOf(c, DigitChars) - 1

StripZeros(d) == Drop(d, SpanLen({"0"}, d))

RECURSIVE TrailZeros(_)
TrailZeros(d) ==
    IF d = "" \/ SubSeq(d, Len(d), Len(d)) # "0" THEN 0
    ELSE 1 + TrailZeros(Take(d, Len(d) - 1))

RECURSIVE StrToNat(_)
StrToNat(d) ==
    IF d = "" THEN 0
    ELSE 10 * StrToNat(Take(d, Len(d) - 1)) + DigitVal(SubSeq(d, Len(d), Len(d)))

\* a <= b, for digit strings of equal length
DigitsLeq(a, b) ==
    LET diff == {i \in 1..Len(a) : SubSeq(a, i, i) # SubSeq(b, i, i)}
        m == CHOOSE i \in diff : \A j \in diff : i <= j
    IN diff = {} \/ DigitVal(SubSeq(a, m, m)) < DigitVal(SubSeq(b, m, m))

\* a <= b, for digit strings without leading zeros
NatLeq(a, b) == Len(a) < Len(b) \/ (Len(a) = Len(b) /\ DigitsLeq(a, b))

\* str::parse::<i32 | i64 | usize> of a digit string: None on overflow
str_parse_int(d, max) ==
    IF NatLeq(StripZeros(d), max)
    THEN Some(IF StripZeros(d) = "" THEN "0" ELSE StripZeros(d))
    ELSE None

\* str::parse::<f32 | f64> of a text of digits, `.` and `e`: None when the text
\* is no float literal; a value at or above the limit is infinite (reached:
\* limit <= the integer part of the value, both of n digits)
str_parse_float(v, limit) ==
    LET done(syntax, D, E, inf, tz) ==
            IF ~syntax THEN None
            ELSE IF inf THEN Some([inf |-> TRUE, mant |-> "", exp |-> 0])
            ELSE IF D = "" THEN Some([inf |-> FALSE, mant |-> "", exp |-> 0])
            ELSE Some([inf |-> FALSE, mant |-> Take(D, Len(D) - tz), exp |-> E + tz])
        with_tz(syntax, D, E, inf) == done(syntax, D, E, inf, TrailZeros(D))
        with_inf(syntax, D, huge, E, n, reached) ==
            with_tz(syntax, D, E,
                    /\ D # ""
                    /\ \/ huge
                       \/ n > Len(limit)
                       \/ n = Len(limit) /\ reached)
        with_reached(syntax, D, huge, E, n, m) ==
            with_inf(syntax, D, huge, E, n,
                     IF Take(D, m) # Take(limit, m)
                     THEN DigitsLeq(Take(limit, m), Take(D, m))
                     ELSE StripZeros(Drop(limit, m)) = "")
        with_m(syntax, D, huge, E, n) ==
            with_reached(syntax, D, huge, E, n, IF Len(D) < n THEN Len(D) ELSE n)
        with_n(syntax, D, huge, E) == with_m(syntax, D, huge, E, Len(D) + E)
        with_E(fp, ed, syntax, D, huge) ==
            with_n(syntax, D, huge, (IF huge THEN 0 ELSE StrToNat(StripZeros(ed))) - Len(fp))
        with_huge(fp, ed, syntax, D) ==
            with_E(fp, ed, syntax, D, Len(StripZeros(ed)) > ExpDigits)
        with_D(ip, fp, ed, syntax) == with_huge(fp, ed, syntax, StripZeros(ip \o fp))
        with_syntax(ip, fp, r2, hasExp, ed) ==
            with_D(ip, fp, ed,
                   /\ Len(ip) + Len(fp) > 0
                   /\ IF hasExp THEN ed # "" /\ SpanLen(Digit, ed) = Len(ed)
                      ELSE r2 = "")
        with_ed(ip, fp, r2, hasExp) ==
            with_syntax(ip, fp, r2, hasExp, IF hasExp THEN Drop(r2, 1) ELSE "")
        with_hasExp(ip, fp, r2) == with_ed(ip, fp, r2, First(r2) = "e")
        with_r2(ip, r1, hasDot, fp) ==
            with_hasExp(ip, fp, IF hasDot THEN Drop(r1, 1 + Len(fp)) ELSE r1)
        with_fp(ip, r1, hasDot) ==
            with_r2(ip, r1, hasDot,
                    IF hasDot THEN Take(Drop(r1, 1), SpanLen(Digit, Drop(r1, 1))) ELSE "")
        with_hasDot(ip, r1) == with_fp(ip, r1, First(r1) = ".")
        with_r1(ip) == with_hasDot(ip, Drop(v, Len(ip)))
    IN with_r1(Take(v, SpanLen(Digit, v)))

(***************************************************************************)
(* Default literals: the map_* parsers yield apache_avro::types::Value     *)
(***************************************************************************)
map_string(s) ==
    LET done(r) == IF r.st = "Ok" THEN Ok([a |-> "String", v |-> r.val], r.rest) ELSE r
    IN done(parse_string_uni(s))

ToLower(c) == IF c \in Upper
              THEN SubSeq("abcdefghijklmnopqrstuvwxyz",
                          IndexOf(c, "ABCDEFGHIJKLMNOPQRSTUVWXYZ"),
                          IndexOf(c, "ABCDEFGHIJKLMNOPQRSTUVWXYZ"))
              ELSE c

RECURSIVE LowerHex(_)
LowerHex(s) == IF s = "" THEN "" ELSE ToLower(First(s)) \o LowerHex(Drop(s, 1))

\* Uuid::from_str: 32 hex digits, bare or hyphenated 8-4-4-4-12; None otherwise
UuidFromStr(v) ==
    LET done(low) ==
            IF Len(low) = 32 /\ SpanLen(Chars(HexChars), low) = 32 THEN Some(low) ELSE None
        with_low(plain) == done(LowerHex(plain))
    IN with_low(IF Len(v) = 36 /\ \A i \in {9, 14, 19, 24} : SubSeq(v, i, i) = "-"
                THEN SubSeq(v, 1, 8) \o SubSeq(v, 10, 13) \o SubSeq(v, 15, 18)
                     \o SubSeq(v, 20, 23) \o SubSeq(v, 25, 36)
                ELSE v)

map_uuid(s) ==
    LET done(r) ==
            IF r.st # "Ok" THEN r
            ELSE IF UuidFromStr(r.val) = None THEN Error
            ELSE Ok([a |-> "Uuid", v |-> UuidFromStr(r.val)[1]], r.rest)
    IN done(parse_string_uni(s))

map_bytes(s) ==
    LET done(r) == IF r.st = "Ok" THEN Ok([a |-> "Bytes", v |-> r.val], r.rest) ELSE r
    IN done(parse_string_uni(s))

map_null(s) == value([a |-> "Null"], tag("null", s))

map_bool(s) ==
    IF StartsWith(s, "true") THEN Ok([a |-> "Boolean", v |-> TRUE], Drop(s, 4))
    ELSE IF StartsWith(s, "false") THEN Ok([a |-> "Boolean", v |-> FALSE], Drop(s, 5))
    ELSE Error

\* a faulty variant of map_int: the literal is read with 64 bits
map_int_wide(s) ==
    LET done(r) ==
            IF r.st = "Ok" /\ str_parse_int(r.val, I64Max) # None
            THEN Ok([a |-> "Int", v |-> str_parse_int(r.val, I64Max)[1]], r.rest)
            ELSE Error
    IN done(digit1(s))

map_int(s) ==
    LET done(r) ==
            IF r.st = "Ok" /\ str_parse_int(r.val, I32Max) # None
            THEN Ok([a |-> "Int", v |-> str_parse_int(r.val, I32Max)[1]], r.rest)
            ELSE Error
    IN done(digit1(s))

map_long(s) ==
    LET done(r) ==
            IF r.st = "Ok" /\ str_parse_int(r.val, I64Max) # None
            THEN Ok([a |-> "Long", v |-> str_parse_int(r.val, I64Max)[1]], r.rest)
            ELSE Error
    IN done(digit1(s))

map_float(s) ==
    LET done(r) ==
            IF r.st = "Ok" /\ str_parse_float(r.val, F32Limit) # None
            THEN Ok([a |-> "Float", v |-> str_parse_float(r.val, F32Limit)[1]], r.rest)
            ELSE Error
    IN done(take_while1(Digit \cup {".", "e"}, s))

map_double(s) ==
    LET done(r) ==
            IF r.st = "Ok" /\ str_parse_float(r.val, F64Limit) # None
            THEN Ok([a |-> "Double", v |-> str_parse_float(r.val, F64Limit)[1]], r.rest)
            ELSE Error
    IN done(take_while1(Digit \cup {".", "e"}, s))

map_usize(s) ==
    LET done(r) ==
            IF r.st = "Ok" /\ str_parse_int(r.val, UsizeMax) # None
            THEN Ok(str_parse_int(r.val, UsizeMax)[1], r.rest)
            ELSE Error
    IN done(digit1(s))

(***************************************************************************)
(* serde_json::Value, and the conversion Value::try_into of a default      *)
(***************************************************************************)
JNull == [t |-> "Null"]
JBool(b) == [t |-> "Bool", v |-> b]
JInt(d) == [t |-> "Number", int |-> d]
JFloat(f) == [t |-> "Number", mant |-> f.mant, exp |-> f.exp]
JString(s) == [t |-> "String", v |-> s]
JArray(items) == [t |-> "Array", v |-> items]
JObject(o) == [t |-> "Object", v |-> o]

ByteOf(c) == IF c = "\n" THEN 10 ELSE IF c = "\t" THEN 9 ELSE IF c = "\r" THEN 13
             ELSE IF c \in Chars(AsciiLow) THEN 31 + IndexOf(c, AsciiLow)
             ELSE 96 + IndexOf(c, AsciiHigh)

\* the decimal digits of a byte value
RECURSIVE NatToStr(_)
NatToStr(n) ==
    IF n < 10 THEN SubSeq(DigitChars, n + 1, n + 1)
    ELSE NatToStr(n \div 10) \o SubSeq(DigitChars, (n % 10) + 1, (n % 10) + 1)

Hyphenated(u) ==
    SubSeq(u, 1, 8) \o "-" \o SubSeq(u, 9, 12) \o "-" \o SubSeq(u, 13, 16) \o "-"
    \o SubSeq(u, 17, 20) \o "-" \o SubSeq(u, 21, 32)

\* a faulty variant of FloatToJson: an infinite value is passed on
FloatToJsonUnchecked(f) == Some(JFloat(f))

\* Number::from_f64: None for a value that is not finite
FloatToJson(f) == IF f.inf THEN None ELSE Some(JFloat(f))

\* TryFrom<Value> for serde_json::Value: None is the conversion error
RECURSIVE try_into(_)
try_into(x) ==
    CASE x.a = "Null" -> Some(JNull)
      [] x.a = "Boolean" -> Some(JBool(x.v))
      [] x.a \in {"Int", "Long"} -> Some(JInt(x.v))
      [] x.a \in {"Float", "Double"} -> FloatToJson(x.v)
      [] x.a = "Bytes" ->
            Some(JArray([i \in 1..Len(x.v) |-> JInt(NatToStr(ByteOf(SubSeq(x.v, i, i))))]))
      [] x.a = "String" -> Some(JString(x.v))
      [] x.a = "Uuid" -> Some(JString(Hyphenated(x.v)))
      [] x.a = "Array" ->
            LET js == [i \in 1..Len(x.v) |-> try_into(x.v[i])]
            IN IF \E i \in 1..Len(x.v) : js[i] = None THEN None
               ELSE Some(JArray([i \in 1..Len(x.v) |-> js[i][1]]))
      [] x.a = "Map" ->
            LET js == [k \in DOMAIN x.v |-> try_into(x.v[k])]
            IN IF \E k \in DOMAIN x.v : js[k] = None THEN None
               ELSE Some(JObject([k \in DOMAIN x.v |-> js[k][1]]))

(***************************************************************************)
(* Schema: a record tagged by its kind k                                   *)
(***************************************************************************)
Prim(k) == [k |-> k]
ArrayOf(s) == [k |-> "Array", items |-> s]
MapOf(s) == [k |-> "Map", values |-> s]
UnionOf(vs) == [k |-> "Union", variants |-> vs]
DecimalOf(p, s) == [k |-> "Decimal", precision |-> p, scale |-> s, inner |-> Prim("Bytes")]

NamedKinds == {"Record", "Enum", "Fixed", "Ref"}

\* UnionSchema::new: None for a nested union or a repeated unnamed kind
UnionSchemaNew(schemas) ==
    IF \E i \in 1..Len(schemas) :
          \/ schemas[i].k = "Union"
          \/ /\ schemas[i].k \notin NamedKinds
             /\ \E j \in 1..(i - 1) : schemas[j].k = schemas[i].k
    THEN None
    ELSE Some(UnionOf(schemas))

\* the keyword arms of map_type_to_schema, in the order they are tried
Keywords ==
    << <<"null", "Null">>, <<"boolean", "Boolean">>, <<"string", "String">>,
       <<"int", "Int">>, <<"double", "Double">>, <<"float", "Float">>,
       <<"long", "Long">>, <<"bytes", "Bytes">>, <<"time_ms", "TimeMillis">>,
       <<"timestamp_ms", "TimestampMillis">>, <<"date", "Date">>,
       <<"uuid", "Uuid">> >>

\* keywords that end where a letter, a digit or an underscore would go on
keyword_schema_whole(s) ==
    LET done(hits, i) ==
            IF hits = {} THEN Error
            ELSE IF First(Drop(s, Len(Keywords[i][1]))) \in AlphaNum \cup {"_"} THEN Error
            ELSE Ok(Prim(Keywords[i][2]), Drop(s, Len(Keywords[i][1])))
        with_i(hits) == done(hits, CHOOSE h \in hits : \A g \in hits : h <= g)
    IN with_i({i \in 1..Len(Keywords) : StartsWith(s, Keywords[i][1])})

keyword_schema(s) ==
    LET done(hits, i) ==
            IF hits = {} THEN Error
            ELSE Ok(Prim(Keywords[i][2]), Drop(s, Len(Keywords[i][1])))
        with_i(hits) == done(hits, CHOOSE h \in hits : \A g \in hits : h <= g)
    IN with_i({i \in 1..Len(Keywords) : StartsWith(s, Keywords[i][1])})

\* decimal(precision scale): pair(map_usize, map_usize) between the parentheses
decimal_schema(s) ==
    LET done(open, p, sc, close) ==
            IF ~StartsWith(s, "decimal") \/ open.st # "Ok" \/ p.st # "Ok"
               \/ sc.st # "Ok" \/ close.st # "Ok"
            THEN Error
            ELSE Ok(DecimalOf(p.val, sc.val), close.rest)
        with_close(open, p, sc) == done(open, p, sc, tag(")", sc.rest))
        with_sc(open, p) == with_close(open, p, map_usize(p.rest))
        with_p(open) == with_sc(open, map_usize(open.rest))
    IN with_p(tag("(", Drop(s, Len("decimal"))))

RECURSIVE map_type_to_schema(_)
RECURSIVE union_variants(_, _)

\* separated_list1(space_delimited(tag(",")), map_type_to_schema), after the
\* variants in acc
union_variants(acc, s) ==
    LET done(sep, v) ==
            IF sep.st # "Ok" THEN Ok(acc, s)
            ELSE IF v.st = "Error" THEN Ok(acc, s)
            ELSE IF v.st # "Ok" THEN v
            ELSE union_variants(Append(acc, v.val), v.rest)
        with_v(sep) == done(sep, map_type_to_schema(sep.rest))
    IN with_v(space_delimited(tag(",", multispace0(s))))

map_type_to_schema(s) ==
    LET \* array<T>
        aitem == map_type_to_schema(Drop(s, Len("array<")))
        aclose == tag(">", aitem.rest)
        arr == IF ~StartsWith(s, "array<") THEN Error
               ELSE IF aitem.st # "Ok" THEN aitem
               ELSE IF aclose.st # "Ok" THEN Error
               ELSE Ok(ArrayOf(aitem.val), aclose.rest)
        \* union { T1, T2, ... }
        uopen == space_delimited(tag("{", multispace0(Drop(s, Len("union")))))
        uhead == map_type_to_schema(uopen.rest)
        ulist == union_variants(<<uhead.val>>, uhead.rest)
        uclose == space_delimited(tag("}", multispace0(ulist.rest)))
        uni == IF ~StartsWith(s, "union") \/ uopen.st # "Ok" THEN Error
               ELSE IF uhead.st # "Ok" THEN uhead
               ELSE IF ulist.st # "Ok" THEN ulist
               ELSE IF uclose.st # "Ok" THEN Error
               ELSE IF UnionSchemaNew(ulist.val) = None THEN Panic
               ELSE Ok(UnionSchemaNew(ulist.val)[1], uclose.rest)
        kw == keyword_schema(s)
    IN IF arr.st # "Error" THEN arr
       ELSE IF uni.st # "Error" THEN uni
       ELSE IF kw.st # "Error" THEN kw
       ELSE decimal_schema(s)

(***************************************************************************)
(* The default dispatcher                                                  *)
(***************************************************************************)
\* a map that keeps the first pair of a key
MapFromIterFirst(pairs) ==
    [k \in {pairs[i][1] : i \in 1..Len(pairs)} |->
        pairs[CHOOSE i \in 1..Len(pairs) :
                 /\ pairs[i][1] = k
                 /\ \A j \in 1..(i - 1) : pairs[j][1] # k][2]]

\* HashMap::from_iter of (key, value) pairs: the last pair of a key wins
MapFromIter(pairs) ==
    [k \in {pairs[i][1] : i \in 1..Len(pairs)} |->
        pairs[CHOOSE i \in 1..Len(pairs) :
                 /\ pairs[i][1] = k
                 /\ \A j \in (i + 1)..Len(pairs) : pairs[j][1] # k][2]]

\* parse_based_on_schema panics while it builds the parser of these schemas
RECURSIVE builds(_)
builds(schema) ==
    CASE schema.k \in {"Null", "Boolean", "Int", "Long", "Float", "Double", "Bytes",
                       "String", "Array", "Date", "TimeMillis", "TimestampMillis",
                       "Uuid", "Decimal", "TimestampMicros", "TimeMicros"} -> TRUE
      [] schema.k = "Union" ->
            schema.variants # <<>> /\ builds(schema.variants[1])
      [] OTHER -> FALSE

RECURSIVE parse_based_on_schema(_, _)
RECURSIVE default_items(_, _, _)
RECURSIVE default_step(_, _, _, _)
RECURSIVE default_list(_, _)
RECURSIVE default_array(_, _)

\* one turn of separated_list0: e is the result of the item parser; a
\* recoverable error ends the list before s
default_step(schema, acc, s, e) ==
    IF e.st = "Error" THEN Ok(acc, s)
    ELSE IF e.st # "Ok" THEN e
    ELSE default_items(schema, Append(acc, e.val), e.rest)

\* the loop of separated_list0(tag(","), parse_based_on_schema(schema)), after
\* the items in acc
default_items(schema, acc, s) ==
    IF First(s) # "," THEN Ok(acc, s)
    ELSE default_step(schema, acc, s, parse_based_on_schema(schema, Drop(s, 1)))

\* a faulty variant of default_list: the items come out last first
default_list_rev(schema, s) ==
    LET done(e, l) ==
            IF ~builds(schema) THEN Panic
            ELSE IF e.st = "Error" THEN Ok(<<>>, s)
            ELSE IF e.st # "Ok" THEN e
            ELSE IF l.st # "Ok" THEN l
            ELSE Ok([i \in 1..Len(l.val) |-> l.val[Len(l.val) + 1 - i]], l.rest)
        with_l(e) == done(e, default_items(schema, <<e.val>>, e.rest))
    IN with_l(parse_based_on_schema(schema, s))

\* separated_list0(tag(","), parse_based_on_schema(schema))
default_list(schema, s) ==
    IF ~builds(schema) THEN Panic
    ELSE default_step(schema, <<>>, s, parse_based_on_schema(schema, s))

\* the closing bracket after the items l, and the AvroValue::Array of them
array_close(l) ==
    IF l.st # "Ok" THEN l
    ELSE IF First(l.rest) # "]" THEN Error
    ELSE Ok([a |-> "Array", v |-> l.val], Drop(l.rest, 1))

\* delimited(tag("["), map(separated_list0(..), AvroValue::Array), tag("]"))
default_array(schema, s) ==
    IF ~builds(schema) THEN Panic
    ELSE IF First(s) # "[" THEN Error
    ELSE array_close(default_list(schema, Drop(s, 1)))

\* a faulty variant of UnionDefaultVariant: the last variant gives the grammar
UnionLastVariant(schema) == schema.variants[Len(schema.variants)]

\* the variant whose grammar reads the default of a union
UnionDefaultVariant(schema) == schema.variants[1]

parse_based_on_schema(schema, s) ==
    CASE schema.k = "Null" -> map_null(s)
      [] schema.k = "Boolean" -> map_bool(s)
      [] schema.k \in {"Int", "Date", "TimeMillis"} -> map_int(s)
      [] schema.k \in {"Long", "TimestampMillis", "TimestampMicros", "TimeMicros"} ->
            map_long(s)
      [] schema.k = "Float" -> map_float(s)
      [] schema.k = "Double" -> map_double(s)
      [] schema.k \in {"Bytes", "Decimal"} -> map_bytes(s)
      [] schema.k = "String" -> map_string(s)
      [] schema.k = "Uuid" -> map_uuid(s)
      [] schema.k = "Array" -> default_array(schema.items, s)
      [] schema.k = "Union" ->
            IF schema.variants = <<>> THEN Panic
            ELSE parse_based_on_schema(UnionDefaultVariant(schema), s)
      [] OTHER -> Panic

\* the value j of a conversion that may fail, with the text left
converted(j, rest) == IF j = None THEN Error ELSE Ok(j[1], rest)

\* map_res(p, |value| value.try_into()), r being p's result
map_res_try_into(r) == IF r.st # "Ok" THEN r ELSE converted(try_into(r.val), r.rest)

\* opt(preceded(tag("="), p)) at s: eq is the result of the tag, dv that of p
\* after it
optional_value(eq, dv, s) == IF eq.st = "Ok" THEN opt(dv, s) ELSE Ok(None, s)

\* an alternation that stays with its first alternative
alt_first(a, b) == a

\* alt((a, b)): b where a fails with a recoverable error
alt(a, b) == IF a.st # "Error" THEN a ELSE b

(***************************************************************************)
(* Fields.  A parser that reads several things in a row is written as its  *)
(* steps: each step is given the results read so far, fails with the first *)
(* of them that failed, and reads what comes next.                         *)
(***************************************************************************)
\* @logicalType("..."): the closure panics (todo!) on any other string, as
\* soon as the string is read
parse_logical_type(s) ==
    LET done(str, close, schema) ==
            IF ~StartsWith(s, "@logicalType(") \/ str.st # "Ok" THEN Error
            ELSE IF str.val \notin {"timestamp-micros", "time-micros", "duration"} THEN Panic
            ELSE IF close.st # "Ok" THEN Error
            ELSE Ok(schema, close.rest)
        with_schema(str, close) ==
            done(str, close,
                 CASE str.val = "timestamp-micros" -> Prim("TimestampMicros")
                   [] str.val = "time-micros" -> Prim("TimeMicros")
                   [] OTHER -> Prim("Duration"))
        with_close(str) ==
            with_schema(str, comment_delimited(tag(")", skip_comment(str.rest))))
    IN with_close(parse_string_uni(Drop(s, Len("@logicalType("))))

FieldOf(schema, order, aliases, name, default) ==
    [schema |-> schema, order |-> order, aliases |-> aliases, name |-> name,
     default |-> default]

\* comment_delimited(parse_order) and comment_delimited(parse_aliases)
order_ann(s) == comment_delimited(parse_order(skip_comment(s)))

aliases_ann(s) == comment_delimited(parse_aliases(skip_comment(s)))

\* the semicolon after the default of a field, and the field
field_end(schema, ann, nm, dflt) ==
    LET semi == comment_delimited(tag(";", skip_comment(space0(dflt.rest))))
    IN IF dflt.st # "Ok" THEN dflt
       ELSE IF semi.st # "Ok" THEN semi
       ELSE Ok(FieldOf(schema, ann.val.fst, ann.val.snd, nm.val, dflt.val), semi.rest)

\* the default of a field, eq being the result of comment_delimited(tag("="))
field_default(schema, ann, nm, eq) ==
    field_end(schema, ann, nm,
              optional_value(eq, map_res_try_into(parse_based_on_schema(schema, eq.rest)),
                             nm.rest))

\* the name nm of a field, and the equals sign after it
field_name(schema, ann, nm) ==
    IF nm.st # "Ok" THEN nm
    ELSE field_default(schema, ann, nm, comment_delimited(tag("=", skip_comment(nm.rest))))

\* the name, after the annotations ann
field_annotated(schema, ann) ==
    field_name(schema, ann, comment_delimited(parse_var_name(skip_comment(ann.rest))))

\* permutation_opt((comment_delimited(parse_order), comment_delimited(parse_aliases))),
\* o and a being their results at s
field_annotations(schema, s, o, a) ==
    field_annotated(schema,
                    permutation_opt(o, aliases_ann(o.rest), a, order_ann(a.rest), s))

\* what parse_field and parse_union read after the type: the annotations in
\* either order, the name, the default, the semicolon
field_rest(schema, s) == field_annotations(schema, s, order_ann(s), aliases_ann(s))

\* the type of a field, lt being the result of the optional @logicalType
\* (an Error where the parser does not look for one)
field_typed(lt, ty) ==
    LET schema == IF lt.st = "Ok" THEN lt.val ELSE ty.val
    IN IF ty.st # "Ok" THEN ty
       ELSE IF ~builds(schema) THEN Panic
       ELSE field_rest(schema, ty.rest)

\* the optional @logicalType annotation lt, and the type after it
field_logical(s, lt) ==
    IF lt.st \notin {"Ok", "Error"} THEN lt
    ELSE field_typed(lt, map_type_to_schema(IF lt.st = "Ok" THEN lt.rest ELSE s))

parse_field(s) == field_logical(s, comment_delimited(parse_logical_type(skip_comment(s))))

\* a union field that must start with the union keyword
parse_union_keyword(s) ==
    IF ~StartsWith(s, "union") THEN Error ELSE field_typed(Error, map_type_to_schema(s))

parse_union(s) == field_typed(Error, map_type_to_schema(s))

\* what parse_array and parse_map read between the type and the default:
\* @order, then @aliases, then the name
plain_name(o, al) ==
    LET nm == space_delimited(parse_var_name(multispace0(al.rest)))
    IN IF nm.st # "Ok" THEN nm
       ELSE Ok([order |-> o.val, aliases |-> al.val, name |-> nm.val], nm.rest)

plain_aliases(o) ==
    plain_name(o, opt(space_delimited(parse_aliases(multispace0(o.rest))), o.rest))

plain_annotations(s) == plain_aliases(opt(space_delimited(parse_order(multispace0(s))), s))

\* a faulty variant of map_entry: every value is read as a string
map_entry_string(schema, s) ==
    LET done(k, colon, v) ==
            IF k.st # "Ok" THEN k
            ELSE IF colon.st # "Ok" THEN colon
            ELSE IF v.st # "Ok" THEN v
            ELSE Ok(<<k.val, v.val>>, v.rest)
        with_v(k, colon) == done(k, colon, map_string(colon.rest))
        with_colon(k) == with_v(k, space_delimited(tag(":", multispace0(k.rest))))
    IN with_colon(parse_string_uni(s))

\* the value of an entry, after its key k and the colon
entry_pair(k, v) == IF v.st # "Ok" THEN v ELSE Ok(<<k.val, v.val>>, v.rest)

\* pair(parse_string_uni, preceded(space_delimited(tag(":")), default parser)),
\* k being the result of parse_string_uni
entry_value(schema, k) ==
    LET colon == space_delimited(tag(":", multispace0(k.rest)))
    IN IF k.st # "Ok" THEN k
       ELSE IF colon.st # "Ok" THEN colon
       ELSE entry_pair(k, parse_based_on_schema(schema, colon.rest))

map_entry(schema, s) == entry_value(schema, parse_string_uni(s))

RECURSIVE map_entries(_, _, _)
RECURSIVE entries_step(_, _, _, _)

\* one turn of separated_list0: e is the result of the entry parser
entries_step(schema, acc, s, e) ==
    IF e.st = "Error" THEN Ok(acc, s)
    ELSE IF e.st # "Ok" THEN e
    ELSE map_entries(schema, Append(acc, e.val), e.rest)

\* the loop of separated_list0(space_delimited(tag(",")), entry), after the
\* entries in acc
map_entries(schema, acc, s) ==
    LET sep == space_delimited(tag(",", multispace0(s)))
    IN IF sep.st # "Ok" THEN Ok(acc, s)
       ELSE entries_step(schema, acc, s, map_entry(schema, sep.rest))

map_entry_list(schema, s) == entries_step(schema, <<>>, s, map_entry(schema, s))

\* the closing brace after the entries l, and the AvroValue::Map of them
map_close(l) ==
    IF l.st # "Ok" THEN l
    ELSE IF First(l.rest) # "}" THEN Error
    ELSE Ok([a |-> "Map", v |-> MapFromIter(l.val)], Drop(l.rest, 1))

\* delimited(tag("{"), separated_list0(..) as a HashMap, tag("}"))
default_map(schema, s) ==
    IF First(s) # "{" THEN Error ELSE map_close(map_entry_list(schema, Drop(s, 1)))

\* the semicolon after the default of an array or map field, and the field
plain_end(schema, ann, dflt) ==
    LET semi == tag(";", dflt.rest)
    IN IF dflt.st # "Ok" THEN dflt
       ELSE IF semi.st # "Ok" THEN semi
       ELSE Ok(FieldOf(schema, ann.val.order, ann.val.aliases, ann.val.name, dflt.val),
               semi.rest)

\* the default of an array or map field, eq being the result of
\* space_delimited(tag("="))
plain_default(schema, ann, eq) ==
    plain_end(schema, ann,
              optional_value(eq,
                             map_res_try_into(IF schema.k = "Array"
                                              THEN default_array(schema.items, eq.rest)
                                              ELSE default_map(schema.values, eq.rest)),
                             ann.rest))

\* the annotations and the name of an array or map field
plain_named(schema, ann) ==
    IF ann.st # "Ok" THEN ann
    ELSE plain_default(schema, ann, space_delimited(tag("=", multispace0(ann.rest))))

\* the type between the angle brackets of array<..> (k = "Array") or map<..>
plain_typed(k, ty) ==
    IF ty.st # "Ok" THEN ty
    ELSE IF First(ty.rest) # ">" THEN Error
    ELSE IF ~builds(ty.val) THEN Panic
    ELSE plain_named(IF k = "Array" THEN ArrayOf(ty.val) ELSE MapOf(ty.val),
                     plain_annotations(Drop(ty.rest, 1)))

parse_array(s) ==
    IF ~StartsWith(s, "array<") THEN Error
    ELSE plain_typed("Array", map_type_to_schema(Drop(s, Len("array<"))))

parse_map(s) ==
    IF ~StartsWith(s, "map<") THEN Error
    ELSE plain_typed("Map", map_type_to_schema(Drop(s, Len("map<"))))

RecordFieldOf(f) ==
    [name |-> f.name, doc |-> None, default |-> f.default, schema |-> f.schema,
     order |-> IF f.order = None THEN "Ascending" ELSE f.order[1],
     aliases |-> f.aliases, position |-> 0]

\* alt((parse_union, parse_map, parse_array, parse_field))
field_alt(s) == alt(parse_union(s), alt(parse_map(s), alt(parse_array(s), parse_field(s))))

\* the RecordField of the field read
record_field(r) == IF r.st = "Ok" THEN Ok(RecordFieldOf(r.val), r.rest) ELSE r

parse_record_field(s) ==
    record_field(comment_delimited(field_alt(skip_comment(multispace0(s)))))

(***************************************************************************)
(* Records                                                                 *)
(***************************************************************************)
parse_record_name(s) ==
    IF StartsWith(s, "record")
    THEN space_delimited(parse_var_name(multispace0(Drop(s, Len("record")))))
    ELSE Error

\* a faulty variant of record_fields: each field goes in front of the others
RECURSIVE record_fields_front(_, _)
record_fields_front(acc, s) ==
    LET done(f) ==
            IF f.st = "Error" THEN (IF acc = <<>> THEN Error ELSE Ok(acc, s))
            ELSE IF f.st # "Ok" THEN f
            ELSE record_fields_front(<<f.val>> \o acc, f.rest)
    IN done(parse_record_field(s))

RECURSIVE record_fields(_, _)
RECURSIVE fields_step(_, _, _)

\* one turn of many1: f is the result of parse_record_field
fields_step(acc, s, f) ==
    IF f.st = "Error" THEN (IF acc = <<>> THEN Error ELSE Ok(acc, s))
    ELSE IF f.st # "Ok" THEN f
    ELSE record_fields(Append(acc, f.val), f.rest)

\* many1(parse_record_field), after the fields in acc
record_fields(acc, s) == fields_step(acc, s, parse_record_field(s))

\* comment_delimited(map_parse_aliases) and comment_delimited(parse_namespace)
record_aliases(s) == comment_delimited(map_parse_aliases(skip_comment(s)))

record_namespace(s) == comment_delimited(parse_namespace(skip_comment(s)))

\* a faulty variant of record_annotations: @aliases only before @namespace
record_annotations_seq(s) ==
    permutation_seq(record_aliases(s), record_namespace(record_aliases(s).rest),
                    record_namespace(s), record_aliases(record_namespace(s).rest), s)

\* the annotations ahead of `record`: fst the aliases, snd the namespace
record_annotations(s) ==
    permutation_opt(record_aliases(s), record_namespace(record_aliases(s).rest),
                    record_namespace(s), record_aliases(record_namespace(s).rest), s)

RecordOf(name, aliases, doc_, fields) ==
    [k |-> "Record", name |-> name, aliases |-> aliases, doc |-> doc_,
     fields |-> fields, lookup |-> <<>>]

\* the closing brace after the fields fs, and the record
record_close(ann, nm, fs) ==
    LET close == tag("}", multispace0(fs.rest))
    IN IF fs.st # "Ok" THEN fs
       ELSE IF close.st # "Ok" THEN close
       ELSE IF NameNew(nm.val) = None THEN Panic
       ELSE Ok(RecordOf([name |-> NameNew(nm.val)[1].name, namespace |-> ann.val.snd],
                        ann.val.fst, None, fs.val), close.rest)

\* the name nm of the record, the opening brace and the fields
record_body(ann, nm) ==
    LET open == tag("{", multispace0(nm.rest))
    IN IF nm.st # "Ok" THEN nm
       ELSE IF open.st # "Ok" THEN open
       ELSE record_close(ann, nm, record_fields(<<>>, open.rest))

\* the record keyword, after the annotations ann
record_named(ann) == record_body(ann, parse_record_name(multispace0(ann.rest)))

parse_record(s) == record_named(record_annotations(s))

(***************************************************************************)
(* Fixed                                                                   *)
(***************************************************************************)
\* a Fixed schema that drops the aliases
FixedWithoutAliases(name, aliases, doc_, size) ==
    [k |-> "Fixed", name |-> name, aliases |-> None, doc |-> doc_, size |-> size]

FixedOf(name, aliases, doc_, size) ==
    [k |-> "Fixed", name |-> name, aliases |-> aliases, doc |-> doc_, size |-> size]

\* the text without the white space at its two ends
RECURSIVE Trim(_)
Trim(s) ==
    IF s = "" THEN s
    ELSE IF First(s) \in MultiSpace THEN Trim(Tail(s))
    ELSE IF SubSeq(s, Len(s), Len(s)) \in MultiSpace THEN Trim(SubSeq(s, 1, Len(s) - 1))
    ELSE s

\* a faulty variant of parse_doc: the documentation loses the white space
\* around it
parse_doc_trimmed(s) ==
    LET done(body) ==
            IF ~StartsWith(s, "/**") \/ body.st # "Ok" THEN Error
            ELSE Ok(Trim(body.val), Drop(body.rest, Len("*/")))
    IN done(take_until("*/", Drop(s, Len("/**"))))

\* delimited(tag("/**"), map(take_until("*/"), String::from), tag("*/"))
parse_doc(s) ==
    LET done(body) ==
            IF ~StartsWith(s, "/**") \/ body.st # "Ok" THEN Error
            ELSE Ok(body.val, Drop(body.rest, Len("*/")))
    IN done(take_until("*/", Drop(s, Len("/**"))))

\* the closing parenthesis after the size sz, the semicolon, and the schema
fixed_end(d, al, nm, sz) ==
    LET semi == tag(";", multispace0(Drop(sz.rest, 1)))
    IN IF sz.st # "Ok" THEN sz
       ELSE IF First(sz.rest) # ")" THEN Error
       ELSE IF semi.st # "Ok" THEN semi
       ELSE IF NameNew(nm.val) = None THEN Panic
       ELSE Ok(FixedOf(NameNew(nm.val)[1], al.val, d.val, sz.val), semi.rest)

\* the name nm, and the size between parentheses right after it
fixed_size(d, al, nm) ==
    IF nm.st # "Ok" THEN nm
    ELSE IF First(nm.rest) # "(" THEN Error
    ELSE fixed_end(d, al, nm, map_usize(Drop(nm.rest, 1)))

\* the name after the optional aliases al
fixed_named(d, al) == IF al.st # "Ok" THEN al ELSE fixed_size(d, al, parse_var_name(al.rest))

\* opt(space_delimited(map_parse_aliases)) after the optional @order o
fixed_aliases(d, o) ==
    IF o.st # "Ok" THEN o
    ELSE fixed_named(d, opt(space_delimited(map_parse_aliases(multispace0(o.rest))), o.rest))

\* the tuple between the keyword and the semicolon
fixed_tuple(d, s) == fixed_aliases(d, opt(space_delimited(parse_order(multispace0(s))), s))

\* the fixed keyword after the optional documentation d; what follows the
\* keyword is under cut
fixed_keyword(d, s) ==
    IF ~StartsWith(s, "fixed") THEN Error
    ELSE cut(fixed_tuple(d, multispace0(Drop(s, Len("fixed")))))

\* space_delimited(opt(parse_doc)), d being the optional documentation
fixed_doc(d) == fixed_keyword(d, multispace0(d.rest))

parse_fixed(s) == fixed_doc(opt(parse_doc(multispace0(s)), multispace0(s)))


(***************************************************************************)
(* Enums                                                                   *)
(***************************************************************************)
EnumOf(name, aliases, symbols) ==
    [k |-> "Enum", name |-> name, aliases |-> aliases, doc |-> None, symbols |-> symbols]

\* delimited(multispace0, parse_var_name, multispace0)
parse_enum_item(s) == space_delimited(parse_var_name(multispace0(s)))

RECURSIVE enum_items(_, _)
RECURSIVE items_step(_, _, _)

\* one turn of separated_list1: e is the result of parse_enum_item; the first
\* item has to be there
items_step(acc, s, e) ==
    IF e.st # "Ok" THEN (IF acc = <<>> THEN e ELSE Ok(acc, s))
    ELSE enum_items(Append(acc, e.val), e.rest)

\* the loop of separated_list1(tag(","), parse_enum_item), after the items in
\* acc
enum_items(acc, s) ==
    IF First(s) # "," THEN Ok(acc, s)
    ELSE items_step(acc, s, parse_enum_item(Drop(s, 1)))

\* the closing brace after the symbols l, and the white space after it
symbols_close(l) ==
    IF l.st # "Ok" THEN l
    ELSE IF First(l.rest) # "}" THEN Error
    ELSE Ok(l.val, multispace0(Drop(l.rest, 1)))

\* the symbols between braces, s being the text after the leading white space
symbols_open(s) ==
    IF First(s) # "{" THEN Error
    ELSE symbols_close(items_step(<<>>, Drop(s, 1), parse_enum_item(Drop(s, 1))))

parse_enum_symbols(s) == symbols_open(multispace0(s))

\* space_delimited(preceded(space_delimited(tag("enum")), parse_var_name))
parse_enum_name(s) ==
    IF ~StartsWith(multispace0(s), "enum") THEN Error
    ELSE space_delimited(parse_var_name(multispace0(Drop(multispace0(s), Len("enum")))))

\* the semicolon after the default symbol it
default_semicolon(it) ==
    IF it.st # "Ok" THEN it
    ELSE IF First(it.rest) # ";" THEN Error
    ELSE Ok(it.val, Drop(it.rest, 1))

\* terminated(preceded(space_delimited(tag("=")), parse_enum_item), tag(";"))
parse_enum_default(s) ==
    IF First(multispace0(s)) # "=" THEN Error
    ELSE default_semicolon(parse_enum_item(Drop(multispace0(s), 1)))

\* a faulty variant of enum_end: a default that is not a symbol of the enum
\* is rejected
enum_end_checked(al, nm, body, dflt) ==
    IF NameNew(nm.val) = None THEN Panic
    ELSE IF dflt.val # None /\ \A i \in 1..Len(body.val) : body.val[i] # dflt.val[1]
    THEN Error
    ELSE Ok(EnumOf(NameNew(nm.val)[1], al.val, body.val), dflt.rest)

\* Name::new(name).unwrap() and the Enum schema; the default dflt is dropped
enum_end(al, nm, body, dflt) ==
    IF NameNew(nm.val) = None THEN Panic
    ELSE Ok(EnumOf(NameNew(nm.val)[1], al.val, body.val), dflt.rest)

\* opt(parse_enum_default) after the symbols body
enum_default(al, nm, body) ==
    IF body.st # "Ok" THEN body
    ELSE enum_end(al, nm, body, opt(parse_enum_default(body.rest), body.rest))

\* parse_enum_symbols after the name nm
enum_symbols(al, nm) ==
    IF nm.st # "Ok" THEN nm ELSE enum_default(al, nm, parse_enum_symbols(nm.rest))

\* parse_enum_name after the optional aliases al
enum_named(al) == IF al.st # "Ok" THEN al ELSE enum_symbols(al, parse_enum_name(al.rest))

parse_enum(s) == enum_named(opt(map_parse_aliases(s), s))


(***************************************************************************)
(* Protocols                                                               *)
(***************************************************************************)
\* comment_delimited(alt((parse_record, parse_enum, parse_fixed))), s being
\* the text after the leading comment
declaration_alt(s) ==
    comment_delimited(alt(parse_record(s), alt(parse_enum(s), parse_fixed(s))))

declaration(s) == declaration_alt(skip_comment(s))

\* a faulty variant of declarations: each declaration goes in front of the
\* others
RECURSIVE declarations_front(_, _)
declarations_front(acc, s) ==
    LET done(d) ==
            IF d.st = "Error" THEN (IF acc = <<>> THEN Error ELSE Ok(acc, s))
            ELSE IF d.st # "Ok" THEN d
            ELSE declarations_front(<<d.val>> \o acc, d.rest)
    IN done(declaration(s))

RECURSIVE declarations(_, _)
RECURSIVE declarations_step(_, _, _)

\* one turn of many1: d is the result of the declaration parser
declarations_step(acc, s, d) ==
    IF d.st = "Error" THEN (IF acc = <<>> THEN Error ELSE Ok(acc, s))
    ELSE IF d.st # "Ok" THEN d
    ELSE declarations(Append(acc, d.val), d.rest)

\* many1(comment_delimited(alt(..))), after the declarations in acc
declarations(acc, s) == declarations_step(acc, s, declaration(s))

\* the closing brace after the declarations ds; the name is dropped
protocol_close(ds) ==
    LET close == tag("}", multispace0(ds.rest))
    IN IF ds.st # "Ok" THEN ds
       ELSE IF close.st # "Ok" THEN close
       ELSE Ok(ds.val, close.rest)

\* the opening brace after the name nm, and the declarations
protocol_body(nm) ==
    LET open == space_delimited(tag("{", multispace0(nm.rest)))
    IN IF nm.st # "Ok" THEN nm
       ELSE IF open.st # "Ok" THEN open
       ELSE protocol_close(declarations(<<>>, open.rest))

\* preceded(tag("protocol"), space_delimited(alphanumeric1)), s being the text
\* after the leading white space
protocol_name(s) ==
    IF ~StartsWith(s, "protocol") THEN Error
    ELSE protocol_body(space_delimited(alphanumeric1(multispace0(Drop(s, Len("protocol"))))))

parse_protocol(s) == protocol_name(multispace0(s))


(***************************************************************************)
(* Serialization.  A serialized map keeps its entries in the order they    *)
(* were written.                                                           *)
(***************************************************************************)
SerMap(entries) == [t |-> "Map", entries |-> entries]

BasicKinds == {"Null", "Boolean", "Int", "Long", "Float", "Double", "Bytes", "String"}

LogicalKinds == {"Uuid", "Date", "TimeMillis", "TimeMicros", "TimestampMillis",
                 "TimestampMicros"}

BasicName(k) ==
    CASE k = "Null" -> "null" [] k = "Boolean" -> "boolean" [] k = "Int" -> "int"
      [] k = "Long" -> "long" [] k = "Float" -> "float" [] k = "Double" -> "double"
      [] k = "Bytes" -> "bytes" [] k = "String" -> "string"

LogicalBase(k) ==
    CASE k = "Uuid" -> "string"
      [] k \in {"Date", "TimeMillis"} -> "int"
      [] k \in {"TimeMicros", "TimestampMillis", "TimestampMicros"} -> "long"

\* time-millis and time-micros under one name
LogicalNameMerged(k) ==
    CASE k = "Uuid" -> "uuid" [] k = "Date" -> "date" [] k = "TimeMillis" -> "time-millis"
      [] k = "TimeMicros" -> "time-millis" [] k = "TimestampMillis" -> "timestamp-millis"
      [] k = "TimestampMicros" -> "timestamp-micros"

LogicalName(k) ==
    CASE k = "Uuid" -> "uuid" [] k = "Date" -> "date" [] k = "TimeMillis" -> "time-millis"
      [] k = "TimeMicros" -> "time-micros" [] k = "TimestampMillis" -> "timestamp-millis"
      [] k = "TimestampMicros" -> "timestamp-micros"

\* Name::fullname(None)
Fullname(n) == IF n.namespace = None THEN n.name ELSE n.namespace[1] \o "." \o n.name

OptEntry(key, o) == IF o = None THEN <<>> ELSE << <<key, o[1]>> >>

DurationSize == 12

\* the aliases of a record field, as the strings the parser kept
FieldAliases(f) ==
    OptEntry("aliases",
             IF f.aliases = None THEN None
             ELSE Some(JArray([j \in 1..Len(f.aliases[1]) |-> JString(f.aliases[1][j])])))

\* the aliases of a named schema, each by its full name
NamedAliases(x) ==
    OptEntry("aliases",
             IF x.aliases = None THEN None
             ELSE Some(JArray([i \in 1..Len(x.aliases[1]) |->
                                 JString(Fullname(x.aliases[1][i]))])))

OptString(key, o) == OptEntry(key, IF o = None THEN None ELSE Some(JString(o[1])))

RECURSIVE Serialize(_), SerializeField(_)

\* a field serialized with its order as well
SerializeFieldWithOrder(f) ==
    SerMap(<< <<"name", JString(f.name)>>, <<"type", Serialize(f.schema)>> >>
           \o OptEntry("default", f.default)
           \o << <<"order", JString(f.order)>> >>
           \o FieldAliases(f))

\* impl Serialize for RecordField
SerializeField(f) ==
    SerMap(<< <<"name", JString(f.name)>>, <<"type", Serialize(f.schema)>> >>
           \o OptEntry("default", f.default)
           \o FieldAliases(f))

\* impl Serialize for Schema
Serialize(x) ==
    CASE x.k \in BasicKinds -> JString(BasicName(x.k))
      [] x.k = "Ref" -> JString(Fullname(x.name))
      [] x.k \in LogicalKinds ->
            SerMap(<< <<"type", JString(LogicalBase(x.k))>>,
                      <<"logicalType", JString(LogicalName(x.k))>> >>)
      [] x.k = "Array" ->
            SerMap(<< <<"type", JString("array")>>, <<"items", Serialize(x.items)>> >>)
      [] x.k = "Map" ->
            SerMap(<< <<"type", JString("map")>>, <<"values", Serialize(x.values)>> >>)
      [] x.k = "Union" ->
            JArray([i \in 1..Len(x.variants) |-> Serialize(x.variants[i])])
      [] x.k = "Record" ->
            SerMap(<< <<"type", JString("record")>> >>
                   \o OptString("namespace", x.name.namespace)
                   \o << <<"name", JString(x.name.name)>> >>
                   \o OptString("doc", x.doc)
                   \o NamedAliases(x)
                   \o << <<"fields",
                           JArray([i \in 1..Len(x.fields) |-> SerializeField(x.fields[i])])>> >>)
      [] x.k = "Enum" ->
            SerMap(<< <<"type", JString("enum")>> >>
                   \o OptString("namespace", x.name.namespace)
                   \o << <<"name", JString(x.name.name)>>,
                          <<"symbols", JArray([i \in 1..Len(x.symbols) |->
                                                 JString(x.symbols[i])])>> >>
                   \o NamedAliases(x))
      [] x.k = "Fixed" ->
            SerMap(<< <<"type", JString("fixed")>> >>
                   \o OptString("namespace", x.name.namespace)
                   \o << <<"name", JString(x.name.name)>> >>
                   \o OptString("doc", x.doc)
                   \o << <<"size", JInt(x.size)>> >>
                   \o NamedAliases(x))
      [] x.k = "Decimal" ->
            SerMap(<< <<"type", Serialize(x.inner)>>, <<"logicalType", JString("decimal")>>,
                      <<"scale", JInt(x.scale)>>, <<"precision", JInt(x.precision)>> >>)
      [] x.k = "Duration" ->
            SerMap(<< <<"type", SerMap(<< <<"type", JString("fixed")>>,
                                          <<"name", JString("duration")>>,
                                          <<"size", JInt(NatToStr(DurationSize))>> >>)>>,
                      <<"logicalType", JString("duration")>> >>)

\* the value a serialized map holds under a key it holds once
Entry(m, key) ==
    m.entries[CHOOSE i \in 1..Len(m.entries) : m.entries[i][1] = key][2]

EntryKeys(m) == [i \in 1..Len(m.entries) |-> m.entries[i][1]]

(***************************************************************************)
(* The parsers as operations on an input text.  doc describes how the      *)
(* input was written; op is the operation that produced result.            *)
(***************************************************************************)
ParseVarName ==
    /\ op = "init"
    /\ op' = "parse_var_name"
    /\ result' = parse_var_name(input)
    /\ UNCHANGED <<input, doc>>

ParseField ==
    /\ op = "init"
    /\ op' = "parse_field"
    /\ result' = parse_field(input)
    /\ UNCHANGED <<input, doc>>

ParseUnion ==
    /\ op = "init"
    /\ op' = "parse_union"
    /\ result' = parse_union(input)
    /\ UNCHANGED <<input, doc>>

ParseArray ==
    /\ op = "init"
    /\ op' = "parse_array"
    /\ result' = parse_array(input)
    /\ UNCHANGED <<input, doc>>

ParseMap ==
    /\ op = "init"
    /\ op' = "parse_map"
    /\ result' = parse_map(input)
    /\ UNCHANGED <<input, doc>>

ParseRecordField ==
    /\ op = "init"
    /\ op' = "parse_record_field"
    /\ result' = parse_record_field(input)
    /\ UNCHANGED <<input, doc>>

ParseRecord ==
    /\ op = "init"
    /\ op' = "parse_record"
    /\ result' = parse_record(input)
    /\ UNCHANGED <<input, doc>>

\* serde_json::to_value of the parsed record
SerializeRecord ==
    /\ op = "parse_record"
    /\ result.st = "Ok"
    /\ op' = "serialize"
    /\ result' = [st |-> "Ok", val |-> result.val, rest |-> result.rest,
                  json |-> Serialize(result.val)]
    /\ UNCHANGED <<input, doc>>

MapTypeToSchema ==
    /\ op = "init"
    /\ op' = "map_type_to_schema"
    /\ result' = map_type_to_schema(input)
    /\ UNCHANGED <<input, doc>>

\* UnionSchema::new on a list of schemas; an Err(..) of it is an Error here
UnionNew ==
    /\ op = "init"
    /\ doc.form = "union_new"
    /\ op' = "UnionSchema::new"
    /\ result' = IF UnionSchemaNew(input) = None THEN Error
                 ELSE Ok(UnionSchemaNew(input)[1], "")
    /\ UNCHANGED <<input, doc>>

ParseFixed ==
    /\ op = "init"
    /\ op' = "parse_fixed"
    /\ result' = parse_fixed(input)
    /\ UNCHANGED <<input, doc>>

\* the @aliases of a field
ParseAliases ==
    /\ op = "init"
    /\ op' = "parse_aliases"
    /\ result' = parse_aliases(input)
    /\ UNCHANGED <<input, doc>>

\* the @aliases of a record, an enum or a fixed
MapParseAliases ==
    /\ op = "init"
    /\ op' = "map_parse_aliases"
    /\ result' = map_parse_aliases(input)
    /\ UNCHANGED <<input, doc>>

ParseEnum ==
    /\ op = "init"
    /\ op' = "parse_enum"
    /\ result' = parse_enum(input)
    /\ UNCHANGED <<input, doc>>

ParseProtocol ==
    /\ op = "init"
    /\ op' = "parse_protocol"
    /\ result' = parse_protocol(input)
    /\ UNCHANGED <<input, doc>>

\* serde_json::to_value of a RecordField
SerializeRecordField ==
    /\ op = "init"
    /\ doc.form = "field_value"
    /\ op' = "serialize_field"
    /\ result' = [st |-> "Ok", val |-> input, rest |-> "", json |-> SerializeField(input)]
    /\ UNCHANGED <<input, doc>>

\* serde_json::to_value of each of two schemas
SerializeSchemas ==
    /\ op = "init"
    /\ doc.form = "schema_pair"
    /\ op' = "serialize_schemas"
    /\ result' = [st |-> "Ok", val |-> input, rest |-> "",
                  json |-> <<Serialize(input[1]), Serialize(input[2])>>]
    /\ UNCHANGED <<input, doc>>

(***************************************************************************)
(* Texts of fields                                                         *)
(***************************************************************************)
RECURSIVE Join(_, _)
Join(strs, sep) ==
    IF strs = <<>> THEN ""
    ELSE IF Len(strs) = 1 THEN strs[1]
    ELSE strs[1] \o sep \o Join(Tail(strs), sep)

\* the sequences of at most n elements of S
RECURSIVE SeqsUpTo(_, _)
SeqsUpTo(S, n) ==
    IF n = 0 THEN {<<>>}
    ELSE LET shorter == SeqsUpTo(S, n - 1)
         IN shorter \cup {Append(q, x) : q \in {r \in shorter : Len(r) = n - 1}, x \in S}

NoRepeat(q) == \A i, j \in 1..Len(q) : i # j => q[i] # q[j]

\* the schema a type keyword stands for
KeywordKind(text) ==
    CASE text = "null" -> "Null" [] text = "boolean" -> "Boolean" [] text = "int" -> "Int"
      [] text = "long" -> "Long" [] text = "float" -> "Float" [] text = "double" -> "Double"
      [] text = "string" -> "String" [] text = "bytes" -> "Bytes" [] text = "date" -> "Date"
      [] text = "time_ms" -> "TimeMillis" [] text = "timestamp_ms" -> "TimestampMillis"
      [] text = "uuid" -> "Uuid"

\* the JSON value a small literal has under the default grammar of a kind,
\* None when the grammar of the kind does not read the whole literal
LiteralValue(kind, lit) ==
    CASE kind = "Null" /\ lit = "null" -> Some(JNull)
      [] kind = "Boolean" /\ lit = "true" -> Some(JBool(TRUE))
      [] kind = "Boolean" /\ lit = "false" -> Some(JBool(FALSE))
      [] kind \in {"Int", "Long"} /\ lit = "1" -> Some(JInt("1"))
      [] kind \in {"Int", "Long"} /\ lit = "20" -> Some(JInt("20"))
      [] kind \in {"Float", "Double"} /\ lit = "1" -> Some([t |-> "Number", mant |-> "1", exp |-> 0])
      [] kind \in {"Float", "Double"} /\ lit = "20" -> Some([t |-> "Number", mant |-> "2", exp |-> 1])
      [] kind \in {"Float", "Double"} /\ lit = "1.5" -> Some([t |-> "Number", mant |-> "15", exp |-> -1])
      [] kind = "String" /\ lit = "\"a\"" -> Some(JString("a"))
      [] kind = "String" /\ lit = "\"1\"" -> Some(JString("1"))
      [] kind = "String" /\ lit = "\"\"" -> Some(JString(""))
      [] OTHER -> None

(***************************************************************************)
(* Union fields with a default                                             *)
(***************************************************************************)
MaxVariants == 2

UnionTypes == {"null", "boolean", "int", "long", "float", "string"}

UnionLiterals == {"", "null", "true", "1", "1.5", "\"a\"", "\"1\""}

UnionText(types, lit) ==
    "union { " \o Join(types, ", ") \o " } item"
    \o (IF lit = "" THEN "" ELSE " = " \o lit) \o ";"

InitUnion ==
    /\ \E types \in {q \in SeqsUpTo(UnionTypes, MaxVariants) : q # <<>> /\ NoRepeat(q)},
          lit \in UnionLiterals :
          /\ doc = [form |-> "union", types |-> types, lit |-> lit]
          /\ input = UnionText(types, lit)
    /\ op = "init"
    /\ result = None

NextUnion == ParseUnion \/ ParseRecordField

SpecUnion == InitUnion /\ [][NextUnion]_vars

UnionSchemaOf(types) == UnionOf([i \in 1..Len(types) |-> Prim(KeywordKind(types[i]))])

\* C1: the default of a union field is read with the grammar of the union's
\* first variant only: the field has the value the literal has under that
\* grammar, and fails when that grammar does not read the literal, whatever
\* the later variants are.
C1_UnionDefaultFirstVariant ==
    op \in {"parse_union", "parse_record_field"} =>
        LET want == LiteralValue(KeywordKind(doc.types[1]), doc.lit)
        IN IF doc.lit # "" /\ want = None THEN result.st = "Error"
           ELSE /\ result.st = "Ok"
                /\ result.rest = ""
                /\ result.val.schema = UnionSchemaOf(doc.types)
                /\ result.val.name = "item"
                /\ result.val.default = (IF doc.lit = "" THEN None ELSE want)

C1_Witness ==
    /\ op = "parse_union"
    /\ doc.types = <<"int", "string">>
    /\ doc.lit = "1"
    /\ result.st = "Ok"
    /\ result.val.default = Some(JInt("1"))

(***************************************************************************)
(* Integer fields with a default                                           *)
(***************************************************************************)
MaxIntLen == 2

\* the integer types as written, with the kind and the width of their values
IntTypes ==
    {[text |-> "int", kind |-> "Int", bits |-> 32],
     [text |-> "date", kind |-> "Date", bits |-> 32],
     [text |-> "time_ms", kind |-> "TimeMillis", bits |-> 32],
     [text |-> "long", kind |-> "Long", bits |-> 64],
     [text |-> "timestamp_ms", kind |-> "TimestampMillis", bits |-> 64],
     [text |-> "@logicalType(\"time-micros\") long", kind |-> "TimeMicros", bits |-> 64],
     [text |-> "@logicalType(\"timestamp-micros\")\nlong", kind |-> "TimestampMicros",
      bits |-> 64]}

\* literals around 2^31, 2^32, 2^63 and 2^64: the widths they fit, their value
EdgeLiterals ==
    {[text |-> "2147483647", fits |-> {32, 64}, value |-> "2147483647"],
     [text |-> "2147483648", fits |-> {64}, value |-> "2147483648"],
     [text |-> "4294967296", fits |-> {64}, value |-> "4294967296"],
     [text |-> "4294967297", fits |-> {64}, value |-> "4294967297"],
     [text |-> "0000000000002147483647", fits |-> {32, 64}, value |-> "2147483647"],
     [text |-> "9223372036854775807", fits |-> {64}, value |-> "9223372036854775807"],
     [text |-> "9223372036854775808", fits |-> {}, value |-> "9223372036854775808"],
     [text |-> "18446744073709551616", fits |-> {}, value |-> "18446744073709551616"],
     [text |-> "18446744073709551617", fits |-> {}, value |-> "18446744073709551617"],
     [text |-> "99999999999999999999", fits |-> {}, value |-> "99999999999999999999"]}

ShortLiterals ==
    {[text |-> Join(q, ""), fits |-> {32, 64},
      value |-> IF StripZeros(Join(q, "")) = "" THEN "0" ELSE StripZeros(Join(q, ""))] :
        q \in SeqsUpTo({"0", "1", "9"}, MaxIntLen) \ {<<>>}}

InitInt ==
    /\ \E ty \in IntTypes, lit \in EdgeLiterals \cup ShortLiterals :
          /\ doc = [form |-> "int", type |-> ty, lit |-> lit]
          /\ input = ty.text \o " age = " \o lit.text \o ";"
    /\ op = "init"
    /\ result = None

NextInt == ParseField \/ ParseRecordField

SpecInt == InitInt /\ [][NextInt]_vars

\* C2: an integer default is accepted exactly when it fits the signed width
\* of the field's kind (32 bits for Int, Date, TimeMillis; 64 bits for Long,
\* TimestampMillis, TimeMicros, TimestampMicros) and then has the value
\* written; a literal out of range makes the field fail.
C2_IntDefaultFitsWidth ==
    op \in {"parse_field", "parse_record_field"} =>
        IF doc.type.bits \in doc.lit.fits
        THEN /\ result.st = "Ok"
             /\ result.rest = ""
             /\ result.val.schema = Prim(doc.type.kind)
             /\ result.val.default = Some(JInt(doc.lit.value))
        ELSE result.st = "Error"

C2_Witness ==
    /\ op = "parse_field"
    /\ doc.type.kind = "TimeMillis"
    /\ doc.lit.text = "9223372036854775807"
    /\ result.st = "Error"

(***************************************************************************)
(* Float and Double fields with a default                                  *)
(***************************************************************************)
\* the most elements written ahead of the literal in an array default
MaxLead == 1

FloatTypes == {[text |-> "float", kind |-> "Float", bits |-> 32],
               [text |-> "double", kind |-> "Double", bits |-> 64]}

\* mantissas, each with the largest power of ten that keeps it finite in 32
\* and in 64 bits
Mantissas ==
    {[text |-> "1", max32 |-> 38, max64 |-> 308],
     [text |-> "9", max32 |-> 37, max64 |-> 307],
     [text |-> "3.4", max32 |-> 38, max64 |-> 307],
     [text |-> "1.8", max32 |-> 38, max64 |-> 307],
     [text |-> "0.17", max32 |-> 39, max64 |-> 309]}

Exponents == {0, 1, 37, 38, 39, 40, 307, 308, 309, 310, 400, 9999, 10000, 123456}

ScaledLiterals ==
    {[text |-> m.text \o "e" \o NatToStr(e),
      finite |-> {b \in {32, 64} : e <= (IF b = 32 THEN m.max32 ELSE m.max64)}] :
        m \in Mantissas, e \in Exponents}

\* literals at the edge of the finite ranges, and plain ones
EdgeFloats ==
    {[text |-> "3.40282347e38", finite |-> {32, 64}],
     [text |-> "3.50282347e40", finite |-> {64}],
     [text |-> "3.4028235e38", finite |-> {32, 64}],
     [text |-> "3.4028236e38", finite |-> {64}],
     [text |-> "340282356779733661637539395458142568447", finite |-> {32, 64}],
     [text |-> "340282356779733661637539395458142568448", finite |-> {64}],
     [text |-> "1.7976931348623157e308", finite |-> {64}],
     [text |-> "1.7976931348623159e308", finite |-> {}],
     [text |-> "0e123456", finite |-> {32, 64}],
     [text |-> "123", finite |-> {32, 64}],
     [text |-> "123.0", finite |-> {32, 64}],
     [text |-> ".5", finite |-> {32, 64}],
     [text |-> "5.", finite |-> {32, 64}]}

RECURSIVE Repeat(_, _)
Repeat(str, n) == IF n = 0 THEN "" ELSE str \o Repeat(str, n - 1)

InitFloat ==
    /\ \E ty \in FloatTypes, lit \in ScaledLiterals \cup EdgeFloats :
          \/ /\ doc = [form |-> "top", type |-> ty, lit |-> lit, lead |-> 0]
             /\ input = ty.text \o " age = " \o lit.text \o ";"
          \/ \E lead \in 0..MaxLead :
                /\ doc = [form |-> "array", type |-> ty, lit |-> lit, lead |-> lead]
                /\ input = "array<" \o ty.text \o "> age = [" \o Repeat("1.5,", lead)
                           \o lit.text \o "];"
    /\ op = "init"
    /\ result = None

NextFloat == ParseField \/ ParseArray \/ ParseRecordField

SpecFloat == InitFloat /\ [][NextFloat]_vars

IsNumber(j) == j.t = "Number"

\* C3: a Float (Double) default that overflows the finite range of 32 (64)
\* bits makes the field fail, written at top level or as an element of an
\* array default; a literal within the range, the finite maximum included,
\* is accepted as a number.
C3_FloatOverflowRejected ==
    /\ (doc.form = "top" /\ op \in {"parse_field", "parse_record_field"}) =>
          IF doc.type.bits \in doc.lit.finite
          THEN /\ result.st = "Ok"
               /\ result.rest = ""
               /\ result.val.schema = Prim(doc.type.kind)
               /\ result.val.default # None
               /\ IsNumber(result.val.default[1])
          ELSE result.st = "Error"
    /\ (doc.form = "array" /\ op \in {"parse_field", "parse_array", "parse_record_field"}) =>
          IF doc.type.bits \in doc.lit.finite
          THEN /\ result.st = "Ok"
               /\ result.rest = ""
               /\ result.val.schema = ArrayOf(Prim(doc.type.kind))
               /\ result.val.default # None
               /\ Len(result.val.default[1].v) = doc.lead + 1
               /\ \A i \in 1..(doc.lead + 1) : IsNumber(result.val.default[1].v[i])
          ELSE result.st = "Error"

C3_Witness ==
    /\ op = "parse_record_field"
    /\ doc.form = "array"
    /\ doc.type.kind = "Float"
    /\ doc.lead = 1
    /\ doc.lit.text = "3.50282347e40"
    /\ result.st = "Error"

(***************************************************************************)
(* Array fields with a default                                             *)
(***************************************************************************)
MaxDepth == 2
MaxElems == 2

ElemTypes == {"int", "boolean", "string"}

ElemLiterals == {"1", "20", "true", "\"a\""}

\* a list literal of the items, and its value: None when an item has none
ListOf(items) ==
    [text |-> "[" \o Join([i \in 1..Len(items) |-> items[i].text], ",") \o "]",
     value |-> IF \E i \in 1..Len(items) : items[i].value = None THEN None
               ELSE Some(JArray([i \in 1..Len(items) |-> items[i].value[1]]))]

\* the items of a list of depth d + 1: literals of the kind or not (d = 0),
\* lists of depth d of at most one item
RECURSIVE NestedItems(_, _)
NestedItems(kind, d) ==
    IF d = 0 THEN {[text |-> l, value |-> LiteralValue(kind, l)] : l \in ElemLiterals}
    ELSE {ListOf(q) : q \in SeqsUpTo(NestedItems(kind, d - 1), 1)}

ArrayDefaults(kind, d) ==
    {ListOf(q) : q \in SeqsUpTo(NestedItems(kind, d - 1), MaxElems)}

RECURSIVE Nest(_, _)
Nest(schema, d) == IF d = 0 THEN schema ELSE ArrayOf(Nest(schema, d - 1))

InitArray ==
    /\ \E ty \in ElemTypes, d \in 1..MaxDepth :
          \/ /\ doc = [form |-> "array", type |-> ty, depth |-> d, written |-> FALSE,
                       lit |-> ListOf(<<>>)]
             /\ input = Repeat("array<", d) \o ty \o Repeat(">", d) \o " stock;"
          \/ \E lit \in ArrayDefaults(KeywordKind(ty), d) :
                /\ doc = [form |-> "array", type |-> ty, depth |-> d, written |-> TRUE,
                          lit |-> lit]
                /\ input = Repeat("array<", d) \o ty \o Repeat(">", d) \o " stock = "
                           \o lit.text \o ";"
    /\ op = "init"
    /\ result = None

NextArray == ParseArray \/ ParseRecordField

SpecArray == InitArray /\ [][NextArray]_vars

\* C4: an array field of element type T nested to depth d has the schema
\* Array(...Array(T)) of depth d; its default [e1,...,en] is the JSON array
\* of the values T's grammar gives the elements, in the order written, at
\* every depth; the field fails when an element fails; no default written
\* gives no default.
C4_ArrayDefaultNested ==
    op \in {"parse_array", "parse_record_field"} =>
        IF doc.written /\ doc.lit.value = None THEN result.st = "Error"
        ELSE /\ result.st = "Ok"
             /\ result.rest = ""
             /\ result.val.schema = Nest(Prim(KeywordKind(doc.type)), doc.depth)
             /\ result.val.name = "stock"
             /\ result.val.default = (IF doc.written THEN doc.lit.value ELSE None)

C4_Witness ==
    /\ op = "parse_array"
    /\ doc.type = "int"
    /\ doc.depth = 2
    /\ doc.lit.text = "[[1],[20]]"
    /\ result.st = "Ok"
    /\ result.val.default = Some(JArray(<<JArray(<<JInt("1")>>), JArray(<<JInt("20")>>)>>))

(***************************************************************************)
(* Map fields with a default                                               *)
(***************************************************************************)
MaxEntries == 2

MapKeys == {"hey", "k2"}

\* how the entries are spaced: after the comma, around the colon
MapStyles == {[comma |-> ", ", colon |-> ": "], [comma |-> ",", colon |-> ":"],
              [comma |-> " , ", colon |-> " : "]}

MapText(entries, style) ==
    "{" \o Join([i \in 1..Len(entries) |->
                   "\"" \o entries[i].key \o "\"" \o style.colon \o entries[i].lit],
                style.comma) \o "}"

\* the object of the entries: under each key written, the value of the last
\* entry of that key
MapValue(kind, entries) ==
    [k \in {entries[i].key : i \in 1..Len(entries)} |->
        LET last == CHOOSE i \in 1..Len(entries) :
                       /\ entries[i].key = k
                       /\ \A j \in 1..Len(entries) : entries[j].key = k => j <= i
        IN LiteralValue(kind, entries[last].lit)[1]]

InitMap ==
    /\ \E ty \in ElemTypes :
          \/ /\ doc = [form |-> "map", type |-> ty, written |-> FALSE, entries |-> <<>>]
             /\ input = "map<" \o ty \o "> stock;"
          \/ \E entries \in SeqsUpTo([key : MapKeys, lit : ElemLiterals], MaxEntries),
                style \in MapStyles :
                /\ doc = [form |-> "map", type |-> ty, written |-> TRUE, entries |-> entries]
                /\ input = "map<" \o ty \o "> stock = " \o MapText(entries, style) \o ";"
    /\ op = "init"
    /\ result = None

NextMap == ParseMap \/ ParseRecordField

SpecMap == InitMap /\ [][NextMap]_vars

\* C5: a map field map<T> has the schema Map(T); its default is the JSON
\* object that holds, under every key written, the value T's grammar gives
\* the literal written for the key (the last one when the key is repeated);
\* {} gives the empty object and no default written gives no default; the
\* field fails when T's grammar does not read a value.
C5_MapDefaultObject ==
    op \in {"parse_map", "parse_record_field"} =>
        LET kind == KeywordKind(doc.type)
            bad == \E i \in 1..Len(doc.entries) :
                      LiteralValue(kind, doc.entries[i].lit) = None
        IN IF bad THEN result.st = "Error"
           ELSE /\ result.st = "Ok"
                /\ result.rest = ""
                /\ result.val.schema = MapOf(Prim(kind))
                /\ result.val.name = "stock"
                /\ IF ~doc.written THEN result.val.default = None
                   ELSE /\ result.val.default # None
                        /\ result.val.default[1].t = "Object"
                        /\ DOMAIN result.val.default[1].v =
                              {doc.entries[i].key : i \in 1..Len(doc.entries)}
                        /\ result.val.default[1].v = MapValue(kind, doc.entries)

C5_Witness ==
    /\ op = "parse_map"
    /\ doc.type = "string"
    /\ doc.entries = <<[key |-> "hey", lit |-> "\"a\""], [key |-> "k2", lit |-> "\"a\""]>>
    /\ result.st = "Ok"
    /\ result.val.default = Some(JObject([k \in {"hey", "k2"} |-> JString("a")]))

(***************************************************************************)
(* Records                                                                 *)
(***************************************************************************)
MaxFields == 2

\* field declarations: the text, and the name, type, default and serialized
\* type it declares
FieldDecls ==
    {[text |-> "string name;", name |-> "name", schema |-> Prim("String"),
      default |-> None, avsc |-> JString("string")],
     [text |-> "boolean active = true;", name |-> "active", schema |-> Prim("Boolean"),
      default |-> Some(JBool(TRUE)), avsc |-> JString("boolean")],
     [text |-> "long salary;", name |-> "salary", schema |-> Prim("Long"),
      default |-> None, avsc |-> JString("long")],
     [text |-> "array<string> tags = [\"a\"];", name |-> "tags",
      schema |-> ArrayOf(Prim("String")), default |-> Some(JArray(<<JString("a")>>)),
      avsc |-> SerMap(<< <<"type", JString("array")>>, <<"items", JString("string")>> >>)],
     [text |-> "union { null, int } age = null;", name |-> "age",
      schema |-> UnionOf(<<Prim("Null"), Prim("Int")>>), default |-> Some(JNull),
      avsc |-> JArray(<<JString("null"), JString("int")>>)]}

AliasTexts ==
    {<<[text |-> "org.old.OldRecord",
        alias |-> [name |-> "OldRecord", namespace |-> Some("org.old")]]>>,
     <<[text |-> "org.old.OldRecord",
        alias |-> [name |-> "OldRecord", namespace |-> Some("org.old")]],
       [text |-> "AncientRecord",
        alias |-> [name |-> "AncientRecord", namespace |-> None]]>>}

NamespaceTexts == {"org.apache.avro.someOtherNamespace"}

AliasesText(as) ==
    "@aliases([" \o Join([i \in 1..Len(as) |-> "\"" \o as[i].text \o "\""], ", ") \o "])"

NamespaceText(ns) == "@namespace(\"" \o ns \o "\")"

\* the record as written: the annotations, whichever is first, then the body
RecordText(d) ==
    LET a == IF d.aliases = None THEN <<>> ELSE <<AliasesText(d.aliases[1])>>
        n == IF d.namespace = None THEN <<>> ELSE <<NamespaceText(d.namespace[1])>>
        ann == IF d.first = "aliases" THEN a \o n ELSE n \o a
    IN Join(ann \o <<"record Employee {">>, "\n")
       \o "\n    " \o Join([i \in 1..Len(d.fields) |-> d.fields[i].text], "\n    ") \o "\n}"

\* the same declaration with its annotations in the other order
Swapped(d) ==
    [d EXCEPT !.first = IF d.first = "aliases" THEN "namespace" ELSE "aliases"]

InitRecord ==
    /\ \E fields \in SeqsUpTo(FieldDecls, MaxFields) \ {<<>>},
          aliases \in {None} \cup {Some(a) : a \in AliasTexts},
          namespace \in {None} \cup {Some(n) : n \in NamespaceTexts},
          first \in {"aliases", "namespace"} :
          /\ first = "namespace" => (aliases # None /\ namespace # None)
          /\ doc = [form |-> "record", aliases |-> aliases, namespace |-> namespace,
                    first |-> first, fields |-> fields]
          /\ input = RecordText(doc)
    /\ op = "init"
    /\ result = None

NextRecord == ParseRecord \/ SerializeRecord

SpecRecord == InitRecord /\ [][NextRecord]_vars

\* C6: the Record parsed from a declaration holds the fields in the order
\* written, each with the name, type and default declared, and the
\* serialized "fields" array lists them in that order, each with its name,
\* its type and, when one was written, its default.
C6_RecordFieldsPreserved ==
    /\ op = "parse_record" => result.st = "Ok"
    /\ op \in {"parse_record", "serialize"} =>
          /\ Len(result.val.fields) = Len(doc.fields)
          /\ \A i \in 1..Len(doc.fields) :
                /\ result.val.fields[i].name = doc.fields[i].name
                /\ result.val.fields[i].schema = doc.fields[i].schema
                /\ result.val.fields[i].default = doc.fields[i].default
    /\ op = "serialize" =>
          LET fs == Entry(result.json, "fields")
          IN /\ fs.t = "Array"
             /\ Len(fs.v) = Len(doc.fields)
             /\ \A i \in 1..Len(doc.fields) :
                   fs.v[i] = SerMap(<< <<"name", JString(doc.fields[i].name)>>,
                                       <<"type", doc.fields[i].avsc>> >>
                                    \o OptEntry("default", doc.fields[i].default))

C6_Witness ==
    /\ op = "serialize"
    /\ Len(doc.fields) = 2
    /\ doc.fields[1].name = "active"
    /\ doc.fields[2].name = "name"
    /\ Entry(result.json, "fields").v[1] =
          SerMap(<< <<"name", JString("active")>>, <<"type", JString("boolean")>>,
                    <<"default", JBool(TRUE)>> >>)
    /\ Entry(result.json, "fields").v[2] =
          SerMap(<< <<"name", JString("name")>>, <<"type", JString("string")>> >>)

\* C10: a record may carry @aliases and @namespace in either order, or only
\* one, or none: it parses to the Record with the bare name, the namespace
\* written (none when not written) and the aliases listed, and the two
\* orders of the same annotations give the same Record.
C10_RecordAnnotationsEitherOrder ==
    op = "parse_record" =>
        /\ result.st = "Ok"
        /\ result.rest = ""
        /\ result.val.name = [name |-> "Employee", namespace |-> doc.namespace]
        /\ result.val.aliases =
              (IF doc.aliases = None THEN None
               ELSE Some([i \in 1..Len(doc.aliases[1]) |-> doc.aliases[1][i].alias]))
        /\ result = parse_record(RecordText(Swapped(doc)))

C10_Witness ==
    /\ op = "parse_record"
    /\ doc.first = "namespace"
    /\ doc.aliases # None
    /\ Len(doc.aliases[1]) = 2
    /\ result.st = "Ok"
    /\ result.val.name.namespace = Some("org.apache.avro.someOtherNamespace")
    /\ Len(result.val.aliases[1]) = 2

\* C15: after parse_record succeeds on fields of distinct names, the record's
\* lookup maps the name of every field to the field's index in the fields
\* list, and every field's position is its index in the fields list.
C15_LookupAndPositions ==
    ( /\ op = "parse_record"
      /\ result.st = "Ok"
      /\ NoRepeat([i \in 1..Len(doc.fields) |-> doc.fields[i].name]) ) =>
        \A i \in 1..Len(result.val.fields) :
            /\ result.val.fields[i].position = i - 1
            /\ result.val.fields[i].name \in DOMAIN result.val.lookup
            /\ result.val.lookup[result.val.fields[i].name] = i - 1

\* a record of two fields has been parsed: its lookup is empty and its
\* second field has position 0
C15_Witness ==
    /\ op = "parse_record"
    /\ result.st = "Ok"
    /\ Len(result.val.fields) = 2
    /\ result.val.fields[1].name = "name"
    /\ result.val.fields[2].name = "salary"
    /\ result.val.fields[2].position = 0
    /\ DOMAIN result.val.lookup = {}


(***************************************************************************)
(* Names                                                                   *)
(***************************************************************************)
MaxNameLen == 3

\* the characters names are written with here, each with its class
NameAlphabet ==
    {[ch |-> "a", class |-> "letter"], [ch |-> "Z", class |-> "letter"],
     [ch |-> "_", class |-> "underscore"], [ch |-> "0", class |-> "digit"],
     [ch |-> "9", class |-> "digit"], [ch |-> "-", class |-> "symbol"],
     [ch |-> " ", class |-> "symbol"], [ch |-> "$", class |-> "symbol"]}

InitName ==
    /\ \E chars \in SeqsUpTo(NameAlphabet, MaxNameLen) :
          /\ doc = [form |-> "name", chars |-> chars]
          /\ input = Join([i \in 1..Len(chars) |-> chars[i].ch], "")
    /\ op = "init"
    /\ result = None

NextName == ParseVarName

SpecName == InitName /\ [][NextName]_vars

\* C8: parse_var_name accepts in full every non-empty text that starts with
\* a letter or `_` and goes on with letters, digits and `_` only; it rejects
\* the empty text and every text whose first character is a digit or a
\* symbol other than `_`.
C8_VarNameGrammar ==
    op = "parse_var_name" =>
        /\ ( /\ doc.chars # <<>>
             /\ doc.chars[1].class \in {"letter", "underscore"}
             /\ \A i \in 1..Len(doc.chars) : doc.chars[i].class # "symbol" )
           => result = Ok(input, "")
        /\ (doc.chars = <<>> \/ doc.chars[1].class \in {"digit", "symbol"})
           => result.st = "Error"

C8_Witness ==
    /\ op = "parse_var_name"
    /\ input = "_a9"
    /\ result = Ok("_a9", "")

(***************************************************************************)
(* Fields annotated with @order and @aliases                               *)
(***************************************************************************)
MaxAliases == 2

\* the field forms: the type as written, a default of the type, and the
\* parser of the form
FieldForms ==
    {[form |-> "generic", type |-> "string", lit |-> "\"a\"", parser |-> "parse_field"],
     [form |-> "generic", type |-> "date", lit |-> "1", parser |-> "parse_field"],
     [form |-> "array", type |-> "array<string>", lit |-> "[\"a\"]", parser |-> "parse_array"],
     [form |-> "map", type |-> "map<string>", lit |-> "{\"hey\": \"a\"}",
      parser |-> "parse_map"],
     [form |-> "union", type |-> "union { null, string }", lit |-> "null",
      parser |-> "parse_union"]}

OrderTexts == {"ascending", "descending", "ignore"}

AnnotatedText(d) ==
    LET o == "@order(\"" \o d.order \o "\")"
        a == "@aliases([" \o Join([i \in 1..Len(d.aliases) |-> "\"" \o d.aliases[i] \o "\""],
                                  ", ") \o "])"
    IN d.field.type \o " " \o (IF d.first = "order" THEN o \o " " \o a ELSE a \o " " \o o)
       \o " stock" \o (IF d.written THEN " = " \o d.field.lit ELSE "") \o ";"

\* the same field with its annotations in the other order
OtherOrder(d) == [d EXCEPT !.first = IF d.first = "order" THEN "aliases" ELSE "order"]

InitAnnotated ==
    /\ \E field \in FieldForms, order \in OrderTexts,
          aliases \in SeqsUpTo({"item", "b"}, MaxAliases) \ {<<>>},
          first \in {"order", "aliases"}, written \in BOOLEAN :
          /\ doc = [form |-> field.form, field |-> field, order |-> order,
                    aliases |-> aliases, first |-> first, written |-> written]
          /\ input = AnnotatedText(doc)
    /\ op = "init"
    /\ result = None

NextAnnotated == ParseField \/ ParseUnion \/ ParseArray \/ ParseMap \/ ParseRecordField

SpecAnnotated == InitAnnotated /\ [][NextAnnotated]_vars

\* what the operation named o gives for a text
Apply(o, text) ==
    CASE o = "parse_field" -> parse_field(text)
      [] o = "parse_union" -> parse_union(text)
      [] o = "parse_array" -> parse_array(text)
      [] o = "parse_map" -> parse_map(text)
      [] o = "parse_record_field" -> parse_record_field(text)

\* C9: for every field form (generic, array, map, union), @order before
\* @aliases and @aliases before @order are both accepted, by the parser of
\* the form and by parse_record_field, and give the same result.
C9_FieldAnnotationsEitherOrder ==
    op \in {doc.field.parser, "parse_record_field"} =>
        /\ result.st = "Ok"
        /\ result = Apply(op, AnnotatedText(OtherOrder(doc)))

\* the case C9 is about is reached: a map field written with @aliases first
C9_Witness ==
    /\ op = "parse_record_field"
    /\ doc.form = "map"
    /\ doc.first = "aliases"
    /\ result.st = "Error"
    /\ Apply(op, AnnotatedText(OtherOrder(doc))).st = "Ok"

(***************************************************************************)
(* Schema equality (PartialEq for Schema)                                  *)
(***************************************************************************)
\* Into<SourceRecordField> and Into<SourceSchema>: each variant becomes the
\* variant of the same name; a field keeps all but its aliases
RECURSIVE IntoSource(_)
IntoSource(x) ==
    CASE x.k = "Array" -> [k |-> "Array", items |-> IntoSource(x.items)]
      [] x.k = "Map" -> [k |-> "Map", values |-> IntoSource(x.values)]
      [] x.k = "Union" ->
            [k |-> "Union",
             variants |-> [i \in 1..Len(x.variants) |-> IntoSource(x.variants[i])]]
      [] x.k = "Record" ->
            [k |-> "Record", name |-> x.name, aliases |-> x.aliases, doc |-> x.doc,
             lookup |-> x.lookup,
             fields |-> [i \in 1..Len(x.fields) |->
                           [name |-> x.fields[i].name, doc |-> x.fields[i].doc,
                            default |-> x.fields[i].default,
                            schema |-> IntoSource(x.fields[i].schema),
                            order |-> x.fields[i].order,
                            position |-> x.fields[i].position]]]
      [] x.k = "Decimal" ->
            [k |-> "Decimal", precision |-> x.precision, scale |-> x.scale,
             inner |-> IntoSource(x.inner)]
      [] OTHER -> [k |-> x.k]

Quoted(s) == "\"" \o s \o "\""

\* apache_avro's Schema::canonical_form: the Parsing Canonical Form, the text
\* of the serialized schema with only name, type, fields, items and values
\* kept, in that order, and the name made a full name
RECURSIVE canonical_form(_)
canonical_form(x) ==
    CASE x.k \in BasicKinds -> Quoted(BasicName(x.k))
      [] x.k \in LogicalKinds -> "{\"type\":" \o Quoted(LogicalBase(x.k)) \o "}"
      [] x.k = "Decimal" -> "{\"type\":" \o canonical_form(x.inner) \o "}"
      [] x.k = "Array" -> "{\"type\":\"array\",\"items\":" \o canonical_form(x.items) \o "}"
      [] x.k = "Map" -> "{\"type\":\"map\",\"values\":" \o canonical_form(x.values) \o "}"
      [] x.k = "Union" ->
            "[" \o Join([i \in 1..Len(x.variants) |-> canonical_form(x.variants[i])], ",")
            \o "]"
      [] x.k = "Record" ->
            "{\"name\":" \o Quoted(Fullname(x.name)) \o ",\"type\":\"record\",\"fields\":["
            \o Join([i \in 1..Len(x.fields) |->
                       "{\"name\":" \o Quoted(x.fields[i].name) \o ",\"type\":"
                       \o canonical_form(x.fields[i].schema) \o "}"], ",")
            \o "]}"

\* a faulty variant of schema_eq: the derived, structural equality
schema_eq_structural(a, b) == a = b

\* PartialEq::eq
schema_eq(a, b) == canonical_form(IntoSource(a)) = canonical_form(IntoSource(b))

MaxEqFields == 2

\* the types a field is changed to, and the types fields start with
EqTypes ==
    {Prim("Int"), Prim("Long"), Prim("String"), Prim("Date"), Prim("TimeMillis"),
     Prim("TimestampMillis"), Prim("TimeMicros"), ArrayOf(Prim("Int")),
     ArrayOf(Prim("Date")), ArrayOf(Prim("TimeMillis"))}

EqBaseTypes == {Prim("Int"), Prim("Date"), Prim("TimestampMillis"), ArrayOf(Prim("Date"))}

PlainField(name, schema) ==
    [name |-> name, doc |-> None, default |-> None, schema |-> schema,
     order |-> "Ascending", aliases |-> None, position |-> 0]

PlainRecords ==
    {RecordOf([name |-> "R", namespace |-> None], None, None, fields) :
        fields \in SeqsUpTo({PlainField(n, ty) : n \in {"a", "b"}, ty \in EqBaseTypes},
                            MaxEqFields) \ {<<>>}}

\* the ways a schema is changed: what changes, at which field, to which type
Edits(a) ==
    {[kind |-> k, i |-> 0, to |-> Prim("Null")] : k \in {"none", "doc", "aliases"}}
    \cup {[kind |-> k, i |-> i, to |-> Prim("Null")] :
            k \in {"field_doc", "field_aliases", "default"}, i \in 1..Len(a.fields)}
    \cup {[kind |-> "swap", i |-> i, to |-> Prim("Null")] :
            i \in {j \in 1..(Len(a.fields) - 1) : a.fields[j] # a.fields[j + 1]}}
    \cup UNION {{[kind |-> "type", i |-> i, to |-> ty] :
                    ty \in {u \in EqTypes : u # a.fields[i].schema}} :
                 i \in 1..Len(a.fields)}

Edit(a, e) ==
    CASE e.kind = "none" -> a
      [] e.kind = "doc" -> [a EXCEPT !.doc = Some("about")]
      [] e.kind = "aliases" ->
            [a EXCEPT !.aliases = Some(<<[name |-> "Old", namespace |-> Some("org")]>>)]
      [] e.kind = "field_doc" -> [a EXCEPT !.fields[e.i].doc = Some("about")]
      [] e.kind = "field_aliases" -> [a EXCEPT !.fields[e.i].aliases = Some(<<"old">>)]
      [] e.kind = "default" -> [a EXCEPT !.fields[e.i].default = Some(JInt("1"))]
      [] e.kind = "swap" ->
            [a EXCEPT !.fields[e.i] = a.fields[e.i + 1], !.fields[e.i + 1] = a.fields[e.i]]
      [] e.kind = "type" -> [a EXCEPT !.fields[e.i].schema = e.to]

\* the changes that give the third schema
ThirdEdits ==
    {[kind |-> "none", i |-> 0, to |-> Prim("Null")],
     [kind |-> "doc", i |-> 0, to |-> Prim("Null")],
     [kind |-> "type", i |-> 1, to |-> Prim("TimeMillis")]}

InitEq ==
    /\ \E a \in PlainRecords :
          \E e \in Edits(a), e3 \in ThirdEdits :
             /\ doc = [form |-> "eq", edit |-> e, third |-> e3]
             /\ input = [a |-> a, b |-> Edit(a, e), c |-> Edit(Edit(a, e), e3)]
    /\ op = "init"
    /\ result = None

\* a == b, b == a, a == a, b == b, b == c and a == c
Compare ==
    /\ op = "init"
    /\ op' = "eq"
    /\ result' = [ab |-> schema_eq(input.a, input.b), ba |-> schema_eq(input.b, input.a),
                  aa |-> schema_eq(input.a, input.a), bb |-> schema_eq(input.b, input.b),
                  bc |-> schema_eq(input.b, input.c), ac |-> schema_eq(input.a, input.c)]
    /\ UNCHANGED <<input, doc>>

NextEq == Compare

SpecEq == InitEq /\ [][NextEq]_vars

EqualityRelation ==
    /\ result.aa /\ result.bb
    /\ result.ab = result.ba
    /\ (result.ab /\ result.bc) => result.ac

RECURSIVE SameCanonicalType(_, _)
SameCanonicalType(s, u) ==
    \/ s.k \in LogicalKinds /\ u.k \in LogicalKinds /\ LogicalBase(s.k) = LogicalBase(u.k)
    \/ s.k = "Array" /\ u.k = "Array" /\ SameCanonicalType(s.items, u.items)

MaxArgLen == 2

\* the arguments of decimal(..): digit strings, with the number they stand for
DecimalArgs ==
    {[text |-> Join(q, ""),
      value |-> IF StripZeros(Join(q, "")) = "" THEN "0" ELSE StripZeros(Join(q, ""))] :
        q \in SeqsUpTo({"0", "1", "9"}, MaxArgLen) \ {<<>>}}

\* what is written between the two arguments
DecimalSeparators == {", ", ",", " ", ""}

InitDecimal ==
    /\ \E p \in DecimalArgs, s \in DecimalArgs, sep \in DecimalSeparators :
          /\ doc = [form |-> "decimal", precision |-> p, scale |-> s, sep |-> sep]
          /\ input = "decimal(" \o p.text \o sep \o s.text \o ")"
    /\ op = "init"
    /\ result = None

NextDecimal == MapTypeToSchema

SpecDecimal == InitDecimal /\ [][NextDecimal]_vars

\* C11: the type grammar resolves decimal(precision, scale), for any two
\* non-negative integers, to the Decimal schema of that precision and that
\* scale.
C11_DecimalResolved ==
    (op = "map_type_to_schema" /\ doc.form = "decimal" /\ doc.sep \in {", ", ","}) =>
        result = Ok(DecimalOf(doc.precision.value, doc.scale.value), "")

\* decimal(10, 1) has been handed to the type grammar, which rejects it
C11_Witness ==
    /\ op = "map_type_to_schema"
    /\ input = "decimal(10, 1)"
    /\ result.st = "Error"

(***************************************************************************)
(* Union schemas                                                           *)
(***************************************************************************)
MaxUnionLen == 3

\* types as written between the braces of a union, with their schemas
UnionMembers ==
    {[text |-> "null", schema |-> Prim("Null")],
     [text |-> "int", schema |-> Prim("Int")],
     [text |-> "date", schema |-> Prim("Date")],
     [text |-> "array<int>", schema |-> ArrayOf(Prim("Int"))],
     [text |-> "union { null }", schema |-> UnionOf(<<Prim("Null")>>)]}

\* named schemas, which no type text stands for
NamedMembers ==
    {RecordOf([name |-> "A", namespace |-> None], None, None, <<>>),
     RecordOf([name |-> "B", namespace |-> None], None, None, <<>>)}

InitUnionNew ==
    /\ \/ \E ms \in SeqsUpTo(UnionMembers, MaxUnionLen) :
             /\ doc = [form |-> "union_text",
                       variants |-> [i \in 1..Len(ms) |-> ms[i].schema]]
             /\ input = "union { " \o Join([i \in 1..Len(ms) |-> ms[i].text], ", ") \o " }"
       \/ \E vs \in SeqsUpTo({m.schema : m \in UnionMembers} \cup NamedMembers, MaxUnionLen) :
             /\ doc = [form |-> "union_new", variants |-> vs]
             /\ input = vs
    /\ op = "init"
    /\ result = None

NextUnionNew ==
    \/ doc.form = "union_text" /\ MapTypeToSchema
    \/ UnionNew

SpecUnionNew == InitUnionNew /\ [][NextUnionNew]_vars

\* a variant list that has at least one variant, no two unnamed variants of
\* one kind and no union among its variants
UnionWellFormed(vs) ==
    /\ vs # <<>>
    /\ \A i \in 1..Len(vs) : vs[i].k # "Union"
    /\ \A i, j \in 1..Len(vs) :
          (i # j /\ vs[i].k = vs[j].k) => vs[i].k \in {"Record", "Enum", "Fixed"}

\* C12: every Union schema that UnionSchema::new or the type grammar gives
\* has at least one variant, no two unnamed variants of one kind and no union
\* among its variants; a variant list that breaks one of the three is
\* rejected.
C12_UnionWellFormed ==
    op \in {"UnionSchema::new", "map_type_to_schema"} =>
        /\ result.st = "Ok" => (result.val.k = "Union" /\ UnionWellFormed(result.val.variants))
        /\ ~UnionWellFormed(doc.variants) => result.st # "Ok"

\* UnionSchema::new has been given the empty list, and has accepted it
C12_Witness ==
    /\ op = "UnionSchema::new"
    /\ input = <<>>
    /\ result = Ok(UnionOf(<<>>), "")


\* a variant list with two unnamed variants of one kind, or with a union
\* among its variants
BreaksUnion(vs) ==
    \/ \E i \in 1..Len(vs) : vs[i].k = "Union"
    \/ \E i, j \in 1..Len(vs) :
          i # j /\ vs[i].k = vs[j].k /\ vs[i].k \notin {"Record", "Enum", "Fixed", "Ref"}

\* C21: a union type with two variants of one unnamed kind, or with a union
\* directly among its variants, makes the parse return a failure to the
\* caller: the result is neither a schema nor an abort of the process.
C21_UnionViolationFails ==
    (op = "map_type_to_schema" /\ BreaksUnion(doc.variants)) =>
        result.st \in {"Error", "Failure"}

\* union { int, int } has been parsed, and the parse has aborted
C21_Witness ==
    /\ op = "map_type_to_schema"
    /\ input = "union { int, int }"
    /\ result.st = "Panic"

(***************************************************************************)
(* Fixed declarations                                                      *)
(***************************************************************************)
MaxSizeLen == 2

\* documentation comments as written (none for ""), and the text between
\* their marks
DocComments ==
    {[text |-> "", body |-> None],
     [text |-> "/** my hash */", body |-> Some(" my hash ")],
     [text |-> "/**  two  words\n */", body |-> Some("  two  words\n ")],
     [text |-> "/**x*/", body |-> Some("x")],
     [text |-> "/***/", body |-> Some("")],
     [text |-> "/** a * b / c */", body |-> Some(" a * b / c ")]}

FixedNames == {"MD5", "a", "_h1"}

FixedSizes ==
    {[text |-> Join(q, ""),
      value |-> IF StripZeros(Join(q, "")) = "" THEN "0" ELSE StripZeros(Join(q, ""))] :
        q \in SeqsUpTo({"0", "1", "6"}, MaxSizeLen) \ {<<>>}}

InitFixed ==
    /\ \E d \in DocComments, gap \in {"", " ", " \n"}, name \in FixedNames,
          size \in FixedSizes, aliased \in BOOLEAN :
          /\ doc = [form |-> "fixed", doc |-> d, gap |-> gap, name |-> name,
                    size |-> size, aliased |-> aliased]
          /\ input = d.text \o gap \o "fixed " \o (IF aliased THEN "@aliases([\"md1\"]) " ELSE "")
                     \o name \o "(" \o size.text \o ");"
    /\ op = "init"
    /\ result = None

NextFixed == ParseFixed

SpecFixed == InitFixed /\ [][NextFixed]_vars

FixedAliasLists ==
    {[text |-> "", aliases |-> None],
     [text |-> "@aliases([\"md1\"]) ",
      aliases |-> Some(<<[name |-> "md1", namespace |-> None]>>)],
     [text |-> "@aliases([\"md1\", \"org.old.Hash\"]) ",
      aliases |-> Some(<<[name |-> "md1", namespace |-> None],
                         [name |-> "Hash", namespace |-> Some("org.old")]>>)]}

FixedOrders == {"", "@order(\"ascending\") ", "@order(\"descending\") ", "@order(\"ignore\") "}

InitFixedAnnotated ==
    /\ \E o \in FixedOrders, al \in FixedAliasLists, name \in FixedNames, size \in FixedSizes,
          d \in {c \in DocComments : c.text \in {"", "/** my hash */"}} :
          /\ doc = [form |-> "fixed_annotated", order |-> o, aliases |-> al, name |-> name,
                    size |-> size, doc |-> d]
          /\ input = d.text \o "fixed " \o o \o al.text \o name \o "(" \o size.text \o ");"
    /\ op = "init"
    /\ result = None

NextFixedAnnotated == ParseFixed

SpecFixedAnnotated == InitFixedAnnotated /\ [][NextFixedAnnotated]_vars

AliasValues ==
    {[text |-> "a", legal |-> TRUE], [text |-> "org.foo.K", legal |-> TRUE],
     [text |-> "_x1", legal |-> TRUE], [text |-> "", legal |-> FALSE],
     [text |-> "9a", legal |-> FALSE], [text |-> "a.9", legal |-> FALSE]}

InitAliases ==
    /\ \E as \in SeqsUpTo(AliasValues, MaxAliases) \ {<<>>}, gap \in {"", " "} :
          /\ doc = [form |-> "aliases", aliases |-> as, gap |-> gap]
          /\ input = "@aliases([" \o Join([i \in 1..Len(as) |-> "\"" \o as[i].text \o "\""],
                                         "," \o gap) \o "])"
    /\ op = "init"
    /\ result = None

NextAliases == ParseAliases \/ MapParseAliases

SpecAliases == InitAliases /\ [][NextAliases]_vars

\* C14: every alias of an @aliases list is validated on its own, on a field
\* (parse_aliases) as on a record, an enum or a fixed (map_parse_aliases):
\* the list is accepted when every alias is legal, and is not accepted when
\* one of them is malformed.
C14_AliasesValidated ==
    op \in {"parse_aliases", "map_parse_aliases"} =>
        (result.st = "Ok" <=> \A i \in 1..Len(doc.aliases) : doc.aliases[i].legal)

\* a list with a malformed alias has been read as the aliases of a field,
\* and has been accepted
C14_Witness ==
    /\ op = "parse_aliases"
    /\ input = "@aliases([\"a\",\"9a\"])"
    /\ result = Ok(<<"a", "9a">>, "")


(***************************************************************************)
(* Enum declarations                                                       *)
(***************************************************************************)
MaxSymbols == 2

EnumSymbols == {"COIN", "NUMBER", "a_1"}

\* the trailers of an enum, as written after the closing brace
EnumTrailers == {" = D;", "= D;", " =D ;", "\n= D\n;"}

\* an enum declaration; D in the trailer stands for the default symbol
EnumText(d) ==
    (IF d.aliased THEN "@aliases([\"org.old.OldItems\"])\n" ELSE "")
    \o "enum Items { " \o Join(d.symbols, ", ") \o " }"
    \o (IF d.default = None THEN ""
        ELSE Take(d.trailer, IndexOf("D", d.trailer) - 1) \o d.default[1]
             \o Drop(d.trailer, IndexOf("D", d.trailer)))

InitEnum ==
    /\ \E symbols \in SeqsUpTo(EnumSymbols, MaxSymbols) \ {<<>>},
          default \in {None} \cup {Some(x) : x \in EnumSymbols \cup {"OTHER"}},
          trailer \in EnumTrailers, aliased \in BOOLEAN :
          /\ default = None => trailer = " = D;"
          /\ doc = [form |-> "enum", symbols |-> symbols, default |-> default,
                    trailer |-> trailer, aliased |-> aliased]
          /\ input = EnumText(doc)
    /\ op = "init"
    /\ result = None

NextEnum == ParseEnum

SpecEnum == InitEnum /\ [][NextEnum]_vars

\* C16: the `= DEFAULT;` trailer of an enum is accepted and changes nothing:
\* the Enum schema (name, aliases, symbols in the declared order) is the one
\* of the same declaration without the trailer, whether or not the default is
\* one of the symbols, and the trailer is consumed in full.
C16_EnumDefaultIgnored ==
    op = "parse_enum" =>
        /\ result.st = "Ok"
        /\ result.rest = ""
        /\ result.val.k = "Enum"
        /\ result.val.name = [name |-> "Items", namespace |-> None]
        /\ result.val.symbols = doc.symbols
        /\ result.val.aliases = IF doc.aliased
                                THEN Some(<<[name |-> "OldItems", namespace |-> Some("org.old")]>>)
                                ELSE None
        /\ result = parse_enum(EnumText([doc EXCEPT !.default = None]))

\* an enum whose default is not one of its symbols has been parsed
C16_Witness ==
    /\ op = "parse_enum"
    /\ input = "enum Items { COIN, NUMBER } = OTHER;"
    /\ result = Ok(EnumOf([name |-> "Items", namespace |-> None], None, <<"COIN", "NUMBER">>),
                   "")


(***************************************************************************)
(* Protocols of records, enums and fixed                                   *)
(***************************************************************************)
MaxDecls == 2

\* declarations as written, with the kind and the name of their schema and
\* the parser of the kind
Declarations ==
    {[text |-> "record Hello {\n    string name;\n}", kind |-> "Record", name |-> "Hello",
      parser |-> "parse_record"],
     [text |-> "@namespace(\"org.x\")\nrecord R2 { int age = 1; long id; }",
      kind |-> "Record", name |-> "R2", parser |-> "parse_record"],
     [text |-> "enum Items { COIN, NUMBER }", kind |-> "Enum", name |-> "Items",
      parser |-> "parse_enum"],
     [text |-> "@aliases([\"org.old.E\"]) enum Kind { A } = A;", kind |-> "Enum",
      name |-> "Kind", parser |-> "parse_enum"],
     [text |-> "fixed MD5(16);", kind |-> "Fixed", name |-> "MD5",
      parser |-> "parse_fixed"]}

ProtocolNames == {"MyProtocol", "Simple", "p2"}

\* what is written between two declarations
DeclarationGaps == {"", "\n    ", " // next\n", " /* next */ "}

ProtocolText(d) ==
    "protocol " \o d.name \o " {\n"
    \o Join([i \in 1..Len(d.decls) |-> d.decls[i].text], d.gap) \o "\n}"

InitProtocol ==
    /\ \E decls \in SeqsUpTo(Declarations, MaxDecls) \ {<<>>}, name \in ProtocolNames,
          gap \in DeclarationGaps :
          /\ doc = [form |-> "protocol", decls |-> decls, name |-> name, gap |-> gap]
          /\ input = ProtocolText(doc)
    /\ op = "init"
    /\ result = None

NextProtocol == ParseProtocol

SpecProtocol == InitProtocol /\ [][NextProtocol]_vars

\* the schema of a declaration parsed on its own
DeclarationSchema(d) ==
    CASE d.parser = "parse_record" -> parse_record(d.text).val
      [] d.parser = "parse_enum" -> parse_enum(d.text).val
      [] d.parser = "parse_fixed" -> parse_fixed(d.text).val

FieldSchemas == {Prim("String"), Prim("Date"), ArrayOf(Prim("Int")),
                 UnionOf(<<Prim("Null"), Prim("Long")>>)}

FieldDefaults == {None, Some(JString("a")), Some(JNull)}

FieldAliasLists == {None, Some(<<>>), Some(<<"item">>), Some(<<"item", "b">>)}

FieldDocs == {None, Some("the stock")}

FieldOrders == {"Ascending", "Descending", "Ignore"}

FieldPositions == 0..1

InitFieldValue ==
    /\ \E schema \in FieldSchemas, default \in FieldDefaults, aliases \in FieldAliasLists,
          doc_ \in FieldDocs, order \in FieldOrders, position \in FieldPositions :
          input = [name |-> "stock", doc |-> doc_, default |-> default, schema |-> schema,
                   order |-> order, aliases |-> aliases, position |-> position]
    /\ doc = [form |-> "field_value"]
    /\ op = "init"
    /\ result = None

NextFieldValue == SerializeRecordField

SpecFieldValue == InitFieldValue /\ [][NextFieldValue]_vars

\* C18: a RecordField serializes to a map whose keys are, in this order,
\* "name", "type", then "default" exactly when the field has a default, then
\* "aliases" exactly when the field has an alias list; the values are the
\* field's name, its serialized schema, its default and its aliases, and the
\* field's order, doc and position appear under no key.
C18_FieldKeysInOrder ==
    op = "serialize_field" =>
        /\ result.json.t = "Map"
        /\ EntryKeys(result.json)
              = <<"name", "type">>
                \o (IF input.default # None THEN <<"default">> ELSE <<>>)
                \o (IF input.aliases # None THEN <<"aliases">> ELSE <<>>)
        /\ Entry(result.json, "name") = JString(input.name)
        /\ Entry(result.json, "type") = Serialize(input.schema)
        /\ input.default # None => Entry(result.json, "default") = input.default[1]
        /\ input.aliases # None =>
              Entry(result.json, "aliases")
                 = JArray([i \in 1..Len(input.aliases[1]) |-> JString(input.aliases[1][i])])
        /\ \A i \in 1..Len(result.json.entries) :
              result.json.entries[i][1] \notin {"order", "doc", "position"}

C18_Witness ==
    /\ op = "serialize_field"
    /\ input.default = Some(JString("a"))
    /\ input.aliases = Some(<<"item", "b">>)
    /\ input.doc = Some("the stock")
    /\ input.order = "Descending"
    /\ input.position = 1
    /\ EntryKeys(result.json) = <<"name", "type", "default", "aliases">>

(***************************************************************************)
(* Serialized schemas, kind by kind                                        *)
(***************************************************************************)
PlainName(n) == [name |-> n, namespace |-> None]

\* schemas of every kind; the references include names of primitives
SchemaSamples ==
    {Prim(k) : k \in BasicKinds \cup LogicalKinds \cup {"Duration"}}
    \cup {DecimalOf("10", "2"),
          ArrayOf(Prim("String")), ArrayOf(Prim("Date")),
          MapOf(Prim("String")), MapOf(Prim("Date")),
          UnionOf(<<>>), UnionOf(<<Prim("Null"), Prim("String")>>),
          RecordOf(PlainName("Employee"), None, None,
                   <<[name |-> "age", doc |-> None, default |-> None, schema |-> Prim("Int"),
                      order |-> "Ascending", aliases |-> None, position |-> 0]>>),
          EnumOf(PlainName("Items"), None, <<"COIN">>),
          FixedOf(PlainName("duration"), None, None, "12"),
          FixedOf(PlainName("MD5"), None, None, "16"),
          [k |-> "Ref", name |-> PlainName("Employee")],
          [k |-> "Ref", name |-> PlainName("string")],
          [k |-> "Ref", name |-> PlainName("null")],
          [k |-> "Ref", name |-> [name |-> "string", namespace |-> Some("org")]]}

InitSchemaPair ==
    /\ input \in SchemaSamples \X SchemaSamples
    /\ doc = [form |-> "schema_pair"]
    /\ op = "init"
    /\ result = None

NextSchemaPair == SerializeSchemas

SpecSchemaPair == InitSchemaPair /\ [][NextSchemaPair]_vars

\* the JSON of a logical type
LogicalJson(base, name) ==
    SerMap(<< <<"type", JString(base)>>, <<"logicalType", JString(name)>> >>)

\* the JSON the statement gives for a primitive or a logical type
StatedJson(k) ==
    CASE k = "Null" -> JString("null") [] k = "Boolean" -> JString("boolean")
      [] k = "Int" -> JString("int") [] k = "Long" -> JString("long")
      [] k = "Float" -> JString("float") [] k = "Double" -> JString("double")
      [] k = "Bytes" -> JString("bytes") [] k = "String" -> JString("string")
      [] k = "Uuid" -> LogicalJson("string", "uuid")
      [] k = "Date" -> LogicalJson("int", "date")
      [] k = "TimeMillis" -> LogicalJson("int", "time-millis")
      [] k = "TimeMicros" -> LogicalJson("long", "time-micros")
      [] k = "TimestampMillis" -> LogicalJson("long", "timestamp-millis")
      [] k = "TimestampMicros" -> LogicalJson("long", "timestamp-micros")

PrimitivesAndLogicalsAsStated ==
    op = "serialize_schemas" =>
        \A i \in 1..2 :
           input[i].k \in BasicKinds \cup LogicalKinds =>
              result.json[i] = StatedJson(input[i].k)

\* a reference whose full name is the name of the primitive p
RefNamedAs(r, p) ==
    /\ r.k = "Ref"
    /\ p.k \in BasicKinds
    /\ JString(Fullname(r.name)) = StatedJson(p.k)

\* C19 as stated: every logical type serializes to {"type": base,
\* "logicalType": name} with the bases string for Uuid, int for Date and
\* TimeMillis, long for TimeMicros, TimestampMillis and TimestampMicros,
\* every primitive to its bare name, and no two schemas of distinct kinds
\* serialize to the same JSON.
C19_InjectiveOnKinds ==
    /\ PrimitivesAndLogicalsAsStated
    /\ op = "serialize_schemas" =>
          (input[1].k # input[2].k => result.json[1] # result.json[2])

\* C19, amended: the same, except that a reference whose full name is the
\* name of a primitive serializes to the same string as that primitive; no
\* other two schemas of distinct kinds serialize to the same JSON.
C19_InjectiveApartFromRef ==
    /\ PrimitivesAndLogicalsAsStated
    /\ op = "serialize_schemas" =>
          /\ (input[1].k # input[2].k /\ result.json[1] = result.json[2])
                => (RefNamedAs(input[1], input[2]) \/ RefNamedAs(input[2], input[1]))
          /\ RefNamedAs(input[1], input[2]) => result.json[1] = result.json[2]

C19_Witness ==
    /\ op = "serialize_schemas"
    /\ input[1] = Prim("TimeMicros")
    /\ input[2] = Prim("TimestampMicros")
    /\ result.json[1] = LogicalJson("long", "time-micros")
    /\ result.json[2] = LogicalJson("long", "timestamp-micros")

(***************************************************************************)
(* The four alternatives of a record field                                 *)
(***************************************************************************)
\* field types as written: the text, a default of the type, and the
\* alternative whose keyword leads the text
LeadingTypes ==
    {[type |-> "string", lit |-> "\"a\"", lead |-> "parse_field"],
     [type |-> "int", lit |-> "1", lead |-> "parse_field"],
     [type |-> "boolean", lit |-> "true", lead |-> "parse_field"],
     [type |-> "date", lit |-> "1", lead |-> "parse_field"],
     [type |-> "@logicalType(\"time-micros\") long", lit |-> "1", lead |-> "parse_field"],
     [type |-> "array<string>", lit |-> "[\"a\"]", lead |-> "parse_array"],
     [type |-> "array<int>", lit |-> "[1]", lead |-> "parse_array"],
     [type |-> "map<string>", lit |-> "{\"k\": \"a\"}", lead |-> "parse_map"],
     [type |-> "map<int>", lit |-> "{\"k\": 1}", lead |-> "parse_map"],
     [type |-> "union { null, string }", lit |-> "null", lead |-> "parse_union"],
     [type |-> "union { int, null }", lit |-> "1", lead |-> "parse_union"]}

LeadingAnnotations == {"", "@order(\"descending\") ", "@aliases([\"item\"]) "}

FieldAlternatives == {"parse_union", "parse_map", "parse_array", "parse_field"}

InitAlternatives ==
    /\ \E field \in LeadingTypes, ann \in LeadingAnnotations, written \in BOOLEAN :
          /\ doc = [form |-> "alternatives", field |-> field, ann |-> ann,
                    written |-> written]
          /\ input = field.type \o " " \o ann \o "stock"
                     \o (IF written THEN " = " \o field.lit ELSE "") \o ";"
    /\ op = "init"
    /\ result = None

NextAlternatives == ParseUnion \/ ParseMap \/ ParseArray \/ ParseField \/ ParseRecordField

SpecAlternatives == InitAlternatives /\ [][NextAlternatives]_vars

\* the alternatives that match a text
Matching(text) == {o \in FieldAlternatives : Apply(o, text).st = "Ok"}

\* C20: of the four alternatives of a record field exactly one matches a
\* field text, the one whose keyword leads the text: parse_union matches
\* only texts that start with union, parse_array only array, parse_map only
\* map, and parse_field only the primitive and logical keywords.
C20_ExactlyOneAlternative ==
    op \in FieldAlternatives =>
        /\ result.st = "Ok" <=> op = doc.field.lead
        /\ Matching(input) = {doc.field.lead}

\* the alternatives that read the type of the field d with the general type
\* parser or with the parser of its own keyword
Overlapping(d) ==
    IF StartsWith(d.field.type, "@logicalType") THEN {"parse_field"}
    ELSE CASE d.field.lead = "parse_map" -> {"parse_map"}
           [] d.field.lead = "parse_array" -> {"parse_union", "parse_array", "parse_field"}
           [] OTHER -> {"parse_union", "parse_field"}

\* C20, amended: the alternatives are not exclusive.  parse_union and
\* parse_field both match a field that starts with a primitive or logical
\* keyword, with array or with union; parse_array matches only array fields
\* and parse_map only map fields; a map field is matched by parse_map alone
\* and a field that starts with @logicalType by parse_field alone.  Every
\* alternative that matches a text gives the same result, which is the
\* result of parse_record_field's choice among them.
C20_AlternativesOverlap ==
    /\ op \in FieldAlternatives =>
          /\ result.st = "Ok" <=> op \in Overlapping(doc)
          /\ result.st = "Ok" => result = Apply(doc.field.lead, input)
          /\ result.st # "Ok" => result.st = "Error"
    /\ op = "parse_record_field" =>
          /\ result.st = "Ok"
          /\ result.val = RecordFieldOf(Apply(doc.field.lead, input).val)
          /\ result.rest = ""

C20_Witness ==
    /\ op = "parse_union"
    /\ doc.field.type = "string"
    /\ result.st = "Ok"
    /\ Matching(input) = {"parse_union", "parse_field"}

(***************************************************************************)
(* Fields under @logicalType                                               *)
(***************************************************************************)
\* values of @logicalType: the three the parser knows, with their schemas,
\* and others
LogicalValues ==
    {[text |-> "timestamp-micros", schema |-> Some(Prim("TimestampMicros"))],
     [text |-> "time-micros", schema |-> Some(Prim("TimeMicros"))],
     [text |-> "duration", schema |-> Some(Prim("Duration"))],
     [text |-> "date", schema |-> None],
     [text |-> "timestamp-millis", schema |-> None],
     [text |-> "uuid", schema |-> None]}

\* the written types, with their schemas
WrittenTypes ==
    {[text |-> "long", schema |-> Prim("Long")],
     [text |-> "int", schema |-> Prim("Int")],
     [text |-> "string", schema |-> Prim("String")],
     [text |-> "boolean", schema |-> Prim("Boolean")]}

\* defaults as written: a number past 32 bits, a string, a boolean
WrittenDefaults ==
    {None, Some([text |-> "4294967296", long |-> TRUE]),
     Some([text |-> "7", long |-> TRUE]),
     Some([text |-> "\"a\"", long |-> FALSE]),
     Some([text |-> "true", long |-> FALSE])}

InitLogical ==
    /\ \E v \in LogicalValues, ty \in WrittenTypes, dflt \in WrittenDefaults :
          /\ doc = [form |-> "logical", value |-> v, type |-> ty, default |-> dflt]
          /\ input = "@logicalType(\"" \o v.text \o "\") " \o ty.text \o " ts"
                     \o (IF dflt = None THEN "" ELSE " = " \o dflt[1].text) \o ";"
    /\ op = "init"
    /\ result = None

NextLogical == ParseField \/ ParseRecordField

SpecLogical == InitLogical /\ [][NextLogical]_vars

\* C22: a default written for a Duration field, and a @logicalType value
\* other than timestamp-micros, time-micros and duration, each make the
\* parse return a failure to the caller; neither aborts the process.
C22_UnimplementedFails ==
    (/\ op \in {"parse_field", "parse_record_field"}
     /\ \/ doc.value.schema = None
        \/ doc.value.text = "duration" /\ doc.default # None)
    => result.st \in {"Error", "Failure"}

\* a field under @logicalType("date") has been parsed, and the parse has
\* aborted
C22_Witness ==
    /\ op = "parse_record_field"
    /\ input = "@logicalType(\"date\") int ts;"
    /\ result.st = "Panic"

\* C23: under each of the three values the parser knows, a field written
\* without a default parses, and its schema is the logical type of the value
\* in place of the schema of the written type; a default written under
\* timestamp-micros or time-micros is read with the 64-bit integer grammar
\* of the logical type, not with the grammar of the written type.
C23_LogicalTypeOverrides ==
    (op = "parse_field" /\ doc.value.schema # None) =>
        /\ doc.default = None =>
              /\ result.st = "Ok"
              /\ result.val.schema = doc.value.schema[1]
              /\ result.val.default = None
        /\ (doc.default # None /\ doc.value.text # "duration") =>
              IF doc.default[1].long
              THEN /\ result.st = "Ok"
                   /\ result.val.schema = doc.value.schema[1]
                   /\ result.val.default = Some(JInt(doc.default[1].text))
              ELSE result.st = "Error"

\* a field under @logicalType("duration") has been parsed without a default,
\* and the parse has aborted
C23_Witness ==
    /\ op = "parse_field"
    /\ input = "@logicalType(\"duration\") long ts;"
    /\ result.st = "Panic"

\* the part of C23 about timestamp-micros and time-micros
LogicalMicros ==
    doc.value.text # "duration" => C23_LogicalTypeOverrides

(***************************************************************************)
(* Alternatives that fail, in fields, records and protocols                *)
(***************************************************************************)
\* fields as written, well formed (with the alternative that reads them) or
\* not: no semicolon, an open quote, an open list, an open object
TriedFields ==
    {[text |-> "string message = \"holis\";", good |-> TRUE, lead |-> "parse_field"],
     [text |-> "@logicalType(\"time-micros\") long t;", good |-> TRUE, lead |-> "parse_field"],
     [text |-> "array<int> xs = [1];", good |-> TRUE, lead |-> "parse_array"],
     [text |-> "map<string> m = {\"k\": \"a\"};", good |-> TRUE, lead |-> "parse_map"],
     [text |-> "union { null, int } u = null;", good |-> TRUE, lead |-> "parse_union"],
     [text |-> "string message", good |-> FALSE, lead |-> "parse_field"],
     [text |-> "string message = \"holis", good |-> FALSE, lead |-> "parse_field"],
     [text |-> "string message = \"holis\"", good |-> FALSE, lead |-> "parse_field"],
     [text |-> "array<int> xs = [1;", good |-> FALSE, lead |-> "parse_array"],
     [text |-> "map<string> m = {\"k\": \"a\";", good |-> FALSE, lead |-> "parse_map"]}

\* declarations as written, well formed (with the alternative that reads
\* them) or holding a field that is not
TriedDeclarations ==
    {[text |-> "record Hello { string name; }", good |-> TRUE, parser |-> "parse_record"],
     [text |-> "@aliases([\"org.old.E\"]) enum Kind { A }", good |-> TRUE,
      parser |-> "parse_enum"],
     [text |-> "fixed MD5(16);", good |-> TRUE, parser |-> "parse_fixed"],
     [text |-> "record A { string m }", good |-> FALSE, parser |-> "parse_record"],
     [text |-> "record B { int i; string m = \"h }", good |-> FALSE,
      parser |-> "parse_record"]}

AllGood(xs) == \A i \in 1..Len(xs) : xs[i].good

InitTried ==
    /\ \/ \E f \in TriedFields :
             /\ doc = [form |-> "tried_field", items |-> <<f>>]
             /\ input = f.text
       \/ \E fs \in SeqsUpTo(TriedFields, MaxFields) \ {<<>>} :
             /\ doc = [form |-> "tried_record", items |-> fs]
             /\ input = "record Employee {\n    "
                        \o Join([i \in 1..Len(fs) |-> fs[i].text], "\n    ") \o "\n}"
       \/ \E ds \in SeqsUpTo(TriedDeclarations, MaxDecls) \ {<<>>} :
             /\ doc = [form |-> "tried_protocol", items |-> ds]
             /\ input = "protocol Simple {\n"
                        \o Join([i \in 1..Len(ds) |-> ds[i].text], "\n") \o "\n}"
    /\ op = "init"
    /\ result = None

NextTried ==
    \/ doc.form = "tried_field" /\ ParseRecordField
    \/ doc.form = "tried_record" /\ ParseRecord
    \/ doc.form = "tried_protocol" /\ ParseProtocol

SpecTried == InitTried /\ [][NextTried]_vars

\* C25: an alternative that fails leaves the input as it was for the next
\* one: a well-formed field parses to what the alternative of its own kind
\* gives on the whole text, and a declaration to what the parser of its own
\* kind gives on it, whatever the alternatives tried before it have read.
\* When no alternative matches a field (no semicolon, an open quote, list or
\* object), the field, the record and the protocol that hold it fail, and
\* the failure holds no schema.
C25_AlternativesBacktrack ==
    /\ op = "parse_record_field" =>
          IF AllGood(doc.items)
          THEN /\ result.st = "Ok"
               /\ result.val = RecordFieldOf(Apply(doc.items[1].lead, input).val)
          ELSE result = Error
    /\ op = "parse_record" =>
          IF AllGood(doc.items)
          THEN /\ result.st = "Ok"
               /\ result.val.fields
                     = [i \in 1..Len(doc.items) |->
                          RecordFieldOf(Apply(doc.items[i].lead, doc.items[i].text).val)]
          ELSE result = Error
    /\ op = "parse_protocol" =>
          IF AllGood(doc.items)
          THEN /\ result.st = "Ok"
               /\ result.val = [i \in 1..Len(doc.items) |-> DeclarationSchema(doc.items[i])]
          ELSE result = Error

\* a protocol whose second record has a field with an open quote has been
\* parsed: the whole parse has failed
C25_Witness ==
    /\ op = "parse_protocol"
    /\ Len(doc.items) = 2
    /\ doc.items[1].text = "@aliases([\"org.old.E\"]) enum Kind { A }"
    /\ doc.items[2].text = "record B { int i; string m = \"h }"
    /\ result = Error

(***************************************************************************)
(* Bodies of records and protocols, empty ones included                    *)
(***************************************************************************)
\* what is written between the braces of an empty body
EmptyBodies == {"", " ", "\n", " // nothing\n"}

BodyText(head, items, blank) ==
    head \o " {"
    \o (IF items = <<>> THEN blank
        ELSE "\n    " \o Join([i \in 1..Len(items) |-> items[i].text], "\n    ") \o "\n")
    \o "}"

InitBodies ==
    /\ \E blank \in EmptyBodies :
          \/ \E fs \in SeqsUpTo(FieldDecls, MaxFields) :
                /\ fs # <<>> => blank = ""
                /\ doc = [form |-> "body_record", items |-> fs, blank |-> blank]
                /\ input = BodyText("record Employee", fs, blank)
          \/ \E ds \in SeqsUpTo(Declarations, MaxDecls) :
                /\ ds # <<>> => blank = ""
                /\ doc = [form |-> "body_protocol", items |-> ds, blank |-> blank]
                /\ input = BodyText("protocol Simple", ds, blank)
    /\ op = "init"
    /\ result = None

NextBodies ==
    \/ doc.form = "body_record" /\ ParseRecord
    \/ doc.form = "body_protocol" /\ ParseProtocol

SpecBodies == InitBodies /\ [][NextBodies]_vars

\* C26: the bodies of a record and of a protocol take zero or more elements:
\* a record of n >= 0 fields parses to a Record of n fields, with no fields
\* for an empty body, and a protocol of n >= 0 declarations to a sequence of
\* n schemas, the empty sequence for an empty body.
C26_EmptyBodiesAccepted ==
    /\ op = "parse_record" =>
          /\ result.st = "Ok"
          /\ result.val.k = "Record"
          /\ Len(result.val.fields) = Len(doc.items)
    /\ op = "parse_protocol" =>
          /\ result.st = "Ok"
          /\ Len(result.val) = Len(doc.items)

\* a record with nothing between its braces has been parsed, and rejected
C26_Witness ==
    /\ op = "parse_record"
    /\ input = "record Employee {}"
    /\ result = Error

\* the bodies that are accepted are those of at least one element
BodiesOfOneOrMore ==
    op \in {"parse_record", "parse_protocol"} =>
        IF doc.items = <<>> THEN result = Error ELSE C26_EmptyBodiesAccepted

(***************************************************************************)
(* Protocols cut short                                                     *)
(***************************************************************************)
\* protocols as written: nested types and defaults, every kind of
\* declaration, a union with a repeated kind, an unknown logical type
CutProtocols ==
    {"protocol P {\n record R { array<array<int>> xs = [[1], [2, 3]]; "
        \o "map<string> m = {\"k\": \"v\"}; }\n enum E { A, B }\n fixed F(4);\n}",
     "protocol P { record R { union { int, int } u; } }",
     "protocol P { record R { @logicalType(\"date\") int d; } } "}

\* every text that a protocol starts with, the whole of it included
InitCut ==
    /\ \E t \in CutProtocols :
          \E n \in 0..Len(t) :
             /\ doc = [form |-> "cut", text |-> t, length |-> n]
             /\ input = Take(t, n)
    /\ op = "init"
    /\ result = None

NextCut == ParseProtocol

SpecCut == InitCut /\ [][NextCut]_vars

\* C27: for every input parse_protocol returns: either a success with the
\* text that remains, which is an end of the input shorter than the input,
\* or a failure.
C27_ProtocolReturns ==
    op = "parse_protocol" =>
        /\ result.st \in {"Ok", "Error", "Failure"}
        /\ result.st = "Ok" =>
              /\ Len(result.rest) < Len(input)
              /\ result.rest = Drop(input, Len(input) - Len(result.rest))

\* a protocol whose record has a union of two ints has been parsed, and the
\* parse has aborted
C27_Witness ==
    /\ op = "parse_protocol"
    /\ input = "protocol P { record R { union { int, int }"
    /\ result.st = "Panic"

\* apart from the aborts, parse_protocol returns as stated, and succeeds
\* on a whole protocol only
ReturnsOrAborts ==
    op = "parse_protocol" =>
        /\ result.st # "Panic" => C27_ProtocolReturns
        /\ result.st = "Panic" <=>
              \/ StartsWith(input, "protocol P { record R { union { int, int }")
              \/ StartsWith(input, "protocol P { record R { @logicalType(\"date\"")
        /\ result.st = "Ok" => (doc.length >= Len(doc.text) - 1 /\ result.rest \in {"", " "})

(***************************************************************************)
(* A type keyword with the name right after it                             *)
(***************************************************************************)
\* identifiers, some of them keywords themselves
GluedNames == {"itude", "x", "_a1", "eger", "S9", "int", "time_ms", "s", "null_"}

InitGlued ==
    /\ \E i \in 1..Len(Keywords), n \in GluedNames :
          /\ doc = [form |-> "glued", keyword |-> Keywords[i][1], kind |-> Keywords[i][2],
                    name |-> n]
          /\ input = Keywords[i][1] \o n \o ";"
    /\ op = "init"
    /\ result = None

NextGlued == ParseField \/ ParseRecordField

SpecGlued == InitGlued /\ [][NextGlued]_vars

\* C28: nothing has to separate a type keyword from what follows it: for
\* every primitive or logical type keyword K and identifier N the text `KN;`
\* parses as a field of the type of K named N, with no default.
C28_KeywordNeedsNoSeparator ==
    /\ op \in {"parse_field", "parse_record_field"} =>
          /\ result.st = "Ok"
          /\ result.rest = ""
          /\ result.val.schema = [k |-> doc.kind]
          /\ result.val.name = doc.name
          /\ result.val.default = None
    /\ op = "parse_record_field" => result.val.aliases = None

C28_Witness ==
    /\ op = "parse_record_field"
    /\ input = "longitude;"
    /\ result.st = "Ok"
    /\ result.val.schema = [k |-> "Long"]
    /\ result.val.name = "itude"

(***************************************************************************)
(* Map defaults that repeat a key                                          *)
(***************************************************************************)
MaxRepeated == 3

RepeatedTypes == {"int", "long"}

RepeatedLiterals == {"1", "20"}

InitRepeated ==
    /\ \E ty \in RepeatedTypes,
          entries \in SeqsUpTo([key : MapKeys, lit : RepeatedLiterals], MaxRepeated) \ {<<>>} :
          /\ doc = [form |-> "repeated", type |-> ty, entries |-> entries]
          /\ input = "map<" \o ty \o "> stock = "
                     \o MapText(entries, [comma |-> ", ", colon |-> ": "]) \o ";"
    /\ op = "init"
    /\ result = None

NextRepeated == ParseMap \/ ParseRecordField

SpecRepeated == InitRepeated /\ [][NextRepeated]_vars

\* the keys written, and the place of the last entry of a key
KeysWritten(entries) == {entries[i].key : i \in 1..Len(entries)}

LastOf(entries, k) ==
    CHOOSE i \in 1..Len(entries) :
       /\ entries[i].key = k
       /\ \A j \in 1..Len(entries) : entries[j].key = k => j <= i

\* C29: a map default that repeats a key is accepted; the object has one
\* entry for each key written, as many entries as distinct keys, and under a
\* repeated key the value of the last entry written for it.
C29_RepeatedKeyLastWins ==
    op \in {"parse_map", "parse_record_field"} =>
        /\ result.st = "Ok"
        /\ result.rest = ""
        /\ result.val.default # None
        /\ result.val.default[1].t = "Object"
        /\ DOMAIN result.val.default[1].v = KeysWritten(doc.entries)
        /\ Cardinality(DOMAIN result.val.default[1].v) = Cardinality(KeysWritten(doc.entries))
        /\ \A k \in KeysWritten(doc.entries) :
              result.val.default[1].v[k] = JInt(doc.entries[LastOf(doc.entries, k)].lit)

C29_Witness ==
    /\ op = "parse_map"
    /\ input = "map<int> stock = {\"hey\": 1, \"k2\": 1, \"hey\": 20};"
    /\ result.st = "Ok"
    /\ result.val.default = Some(JObject([k \in {"hey", "k2"} |->
                                            IF k = "hey" THEN JInt("20") ELSE JInt("1")]))

(***************************************************************************)
(* Documentation comments before a fixed, in a protocol and on their own   *)
(***************************************************************************)
\* what is declared in the protocol before the fixed, with its schemas
DeclaredBefore ==
    {[text |-> "", count |-> 0],
     [text |-> "record Hello { string name; }\n", count |-> 1]}

\* the documentation comment, the gap and the fixed declaration
DocFixedText(d) ==
    d.doc.text \o d.gap \o "fixed " \o d.name \o "(" \o d.size.text \o ");"

InitDocFixed ==
    /\ \E d \in DocComments \ {[text |-> "", body |-> None]}, gap \in {"", " ", " \n"},
          name \in FixedNames, size \in FixedSizes, before \in DeclaredBefore,
          form \in {"doc_protocol", "doc_alone"} :
          /\ form = "doc_alone" => before.count = 0
          /\ doc = [form |-> form, doc |-> d, gap |-> gap, name |-> name,
                    size |-> size, before |-> before]
          /\ input = IF form = "doc_alone" THEN DocFixedText(doc)
                     ELSE "protocol P {\n" \o before.text \o DocFixedText(doc) \o "\n}"
    /\ op = "init"
    /\ result = None

NextDocFixed ==
    \/ /\ doc.form = "doc_protocol" /\ ParseProtocol
    \/ /\ doc.form = "doc_alone" /\ ParseFixed

SpecDocFixed == InitDocFixed /\ [][NextDocFixed]_vars

\* the Fixed of the declaration written in d, under the doc given
DocFixedSchema(d, doc_) ==
    [k |-> "Fixed", name |-> [name |-> d.name, namespace |-> None], aliases |-> None,
     doc |-> doc_, size |-> d.size.value]

\* C30: in a protocol body, one /** ... */ comment directly before a fixed
\* declaration is taken as an ordinary comment by the comment-skipping
\* wrapper before parse_fixed runs, so the Fixed has no doc; the same comment
\* and declaration given to parse_fixed yield the Fixed with that doc.
C30_DocCommentSkippedInProtocol ==
    /\ op = "parse_protocol" =>
          /\ result.st = "Ok"
          /\ Len(result.val) = doc.before.count + 1
          /\ result.val[Len(result.val)] = DocFixedSchema(doc, None)
    /\ op = "parse_fixed" =>
          /\ result.st = "Ok"
          /\ result.val = DocFixedSchema(doc, doc.doc.body)
          /\ doc.doc.body # None

C30_Witness ==
    /\ op = "parse_protocol"
    /\ input = "protocol P {\n/** my hash */ fixed MD5(16);\n}"
    /\ result.st = "Ok"
    /\ result.val = <<[k |-> "Fixed", name |-> [name |-> "MD5", namespace |-> None],
                       aliases |-> None, doc |-> None, size |-> "16"]>>
    /\ parse_fixed("/** my hash */ fixed MD5(16);").val.doc = Some(" my hash ")


(***************************************************************************)
(* All inputs and all operations together                                  *)
(***************************************************************************)
Init ==
    \/ InitUnion \/ InitInt \/ InitFloat \/ InitArray \/ InitMap
    \/ InitRecord \/ InitName \/ InitAnnotated \/ InitEq
    \/ InitDecimal \/ InitUnionNew \/ InitFixed \/ InitAliases \/ InitEnum
    \/ InitProtocol \/ InitFieldValue \/ InitSchemaPair \/ InitAlternatives
    \/ InitLogical \/ InitFixedAnnotated \/ InitTried \/ InitBodies \/ InitCut
    \/ InitGlued \/ InitRepeated \/ InitDocFixed

Next ==
    \/ /\ doc.form \notin {"eq", "union_new", "field_value", "schema_pair"}
       /\ \/ ParseVarName \/ ParseField \/ ParseUnion \/ ParseArray \/ ParseMap
          \/ ParseRecordField \/ ParseRecord \/ SerializeRecord
          \/ MapTypeToSchema \/ ParseFixed \/ ParseAliases \/ MapParseAliases
          \/ ParseEnum \/ ParseProtocol
    \/ /\ doc.form = "eq"
       /\ Compare
    \/ UnionNew
    \/ SerializeRecordField
    \/ SerializeSchemas

Spec == Init /\ [][Next]_vars

====
